---------------------------- MODULE Spec2Model ----------------------------
(***************************************************************************)
(* A model of nbgrader's gradebook (nbgrader/api.py): the relational store *)
(* (nine tables), the derived column properties computed from it, and the  *)
(* Gradebook facade that mutates it.                                       *)
(*                                                                         *)
(* The committed store is the variable db.  Every row carries the opaque   *)
(* id the code draws from uuid4 (here a tuple of integers that is fresh    *)
(* with respect to every id still referenced anywhere) and its foreign     *)
(* keys; a NULL foreign key is NoId, a NULL score, comment or timestamp is *)
(* Null.  Scores are exact numbers (integers): floating point rounding is  *)
(* not modelled.  Payload columns that no operation of the facade reads    *)
(* (the source and hash of a cell, the names and email of a student, the   *)
(* cell_type of a solution cell) are left out of the rows; the due date    *)
(* and the extension are arguments of the lateness operators.              *)
(*                                                                         *)
(* Spec is one Gradebook used by one caller: every handler is one atomic   *)
(* action, on few values.  SpecGrade is the same caller and the same       *)
(* handlers on every value of the scored columns.  SpecConc is two         *)
(* Gradebook sessions on one store: a cascade is cut where it reads the    *)
(* store and where it commits, which is where the other session comes in.  *)
(* SpecFind is one caller that looks rows up among same-named ones,        *)
(* SpecSession one Gradebook whose session outlives a failed commit,       *)
(* SpecCache a session that holds an aggregate while another writes,       *)
(* SpecLate the lateness of a submission on every argument, and SpecRace   *)
(* two sessions in add_submission and update_or_create_submission, cut     *)
(* between the finds and the commit.  All run the same operators on the    *)
(* store.                                                                  *)
(***************************************************************************)
EXTENDS Integers, FiniteSets, Sequences, TLC

VARIABLES db, pc, loc

vars == <<db, pc, loc>>

---------------------------------------------------------------------------
(* Bounds of the model *)

NumAssignments == 2
NumStudents == 2
NumNotebooks == 1
NumGradeCells == 2
NumSolutionCells == 1
MaxPoints == 2
MaxGrade == 1
MaxTime == 1
MaxGradeCellRows == 2
MaxSubmissionRows == 2
MaxGradeRows == 2

CellTypes == {"code", "markdown"}
Null == -1
Absent == -2
NoId == <<>>
Callers == {1, 2}

---------------------------------------------------------------------------
(* The store *)

EmptyDb ==
  [assignment |-> {}, student |-> {}, notebook |-> {}, grade_cell |-> {},
   solution_cell |-> {}, submitted_assignment |-> {},
   submitted_notebook |-> {}, grade |-> {}, comment |-> {}]

Ids(rows) == {r.id : r \in rows}

\* Every id that is a row's id or is still named by a foreign key of the store.
DbIds(d) ==
  Ids(d.assignment) \cup Ids(d.student) \cup Ids(d.notebook)
    \cup Ids(d.grade_cell) \cup Ids(d.solution_cell)
    \cup Ids(d.submitted_assignment) \cup Ids(d.submitted_notebook)
    \cup Ids(d.grade) \cup Ids(d.comment)
    \cup {r.assignment_id : r \in d.notebook}
    \cup {r.notebook_id : r \in d.grade_cell \cup d.solution_cell}
    \cup {r.assignment_id : r \in d.submitted_assignment}
    \cup {r.student_id : r \in d.submitted_assignment}
    \cup {r.notebook_id : r \in d.submitted_notebook}
    \cup {r.assignment_id : r \in d.submitted_notebook}
    \cup {r.cell_id : r \in d.grade \cup d.comment}
    \cup {r.notebook_id : r \in d.grade \cup d.comment}

\* new_uuid: an id no row and no reference holds; key is the table's tag and
\* the natural key the row is created with, so that equal stores get equal ids.
new_uuid(used, key) ==
  LET n == CHOOSE i \in 1..(Cardinality(used) + 1) :
             /\ (key \o <<i>>) \notin used
             /\ \A j \in 1..(i - 1) : (key \o <<j>>) \in used
  IN  key \o <<n>>

TagAssignment == 1
TagNotebook == 2
TagGradeCell == 3
TagSolutionCell == 4
TagSubmittedAssignment == 5
TagSubmittedNotebook == 6
TagGrade == 7
TagComment == 8

Student(sid) == [id |-> <<sid>>]

Assignment(used, name) ==
  [id |-> new_uuid(used, <<TagAssignment, name>>), name |-> name]

Notebook(used, name, aid) ==
  [id |-> new_uuid(used, <<TagNotebook>> \o aid \o <<name>>),
   name |-> name, assignment_id |-> aid]

GradeCell(used, name, nbid, max_score, cell_type) ==
  [id |-> new_uuid(used, <<TagGradeCell>> \o nbid \o <<name>>),
   name |-> name, notebook_id |-> nbid,
   max_score |-> max_score, cell_type |-> cell_type]

SolutionCell(used, name, nbid) ==
  [id |-> new_uuid(used, <<TagSolutionCell>> \o nbid \o <<name>>),
   name |-> name, notebook_id |-> nbid]

SubmittedAssignment(used, aid, sid, timestamp) ==
  [id |-> new_uuid(used, <<TagSubmittedAssignment>> \o aid \o sid),
   assignment_id |-> aid, student_id |-> sid, timestamp |-> timestamp]

SubmittedNotebook(used, nbid, said) ==
  [id |-> new_uuid(used, <<TagSubmittedNotebook>> \o nbid \o said),
   notebook_id |-> nbid, assignment_id |-> said]

Grade(used, cid, snid) ==
  [id |-> new_uuid(used, <<TagGrade>> \o cid \o snid),
   cell_id |-> cid, notebook_id |-> snid,
   auto_score |-> Null, manual_score |-> Null]

Comment(used, cid, snid) ==
  [id |-> new_uuid(used, <<TagComment>> \o cid \o snid),
   cell_id |-> cid, notebook_id |-> snid, comment |-> Null]

---------------------------------------------------------------------------
(* Uniqueness constraints, as the engine enforces them at flush: a new row *)
(* may not repeat the key of another row; a key holding NULL repeats none. *)

KeyStudent(r) == <<r.id>>
KeyAssignment(r) == <<<<r.name>>>>
KeyNotebook(r) == <<<<r.name>>, r.assignment_id>>
\* A key that tells no two cells of a notebook apart by their name.
KeyCell_by_id(r) == <<r.id, r.notebook_id>>

KeyCell(r) == <<<<r.name>>, r.notebook_id>>
\* A key that tells no two submissions apart by their pair.
KeySubmittedAssignment_by_id(r) == <<r.id, r.id>>
KeySubmittedAssignment(r) == <<r.assignment_id, r.student_id>>
KeySubmittedNotebook(r) == <<r.notebook_id, r.assignment_id>>
KeyGradeOrComment(r) == <<r.cell_id, r.notebook_id>>

HasNullKey(k) == \E i \in DOMAIN k : k[i] = NoId

\* new: the rows a flush inserts, one set per table.
IntegrityError(d, new) ==
  LET Repeats(existing, rows, Key(_)) ==
        \E r \in rows :
          /\ ~HasNullKey(Key(r))
          /\ \/ \E e \in existing : Key(e) = Key(r)
             \/ \E e \in rows \ {r} : Key(e) = Key(r)
  IN
  \/ Repeats(d.student, new.student, KeyStudent)
  \/ Repeats(d.assignment, new.assignment, KeyAssignment)
  \/ Repeats(d.notebook, new.notebook, KeyNotebook)
  \/ Repeats(d.grade_cell, new.grade_cell, KeyCell)
  \/ Repeats(d.solution_cell, new.solution_cell, KeyCell)
  \/ Repeats(d.submitted_assignment, new.submitted_assignment,
             KeySubmittedAssignment)
  \/ Repeats(d.submitted_notebook, new.submitted_notebook,
             KeySubmittedNotebook)
  \/ Repeats(d.grade, new.grade, KeyGradeOrComment)
  \/ Repeats(d.comment, new.comment, KeyGradeOrComment)

Inserted(d, new) ==
  [assignment |-> d.assignment \cup new.assignment,
   student |-> d.student \cup new.student,
   notebook |-> d.notebook \cup new.notebook,
   grade_cell |-> d.grade_cell \cup new.grade_cell,
   solution_cell |-> d.solution_cell \cup new.solution_cell,
   submitted_assignment |->
     d.submitted_assignment \cup new.submitted_assignment,
   submitted_notebook |-> d.submitted_notebook \cup new.submitted_notebook,
   grade |-> d.grade \cup new.grade,
   comment |-> d.comment \cup new.comment]

Outcome(d, status) == [db |-> d, status |-> status]

\* A commit that the unique constraints do not stop (a mutant).
commit_insert_unchecked(d, new) ==
  Outcome(Inserted(d, new), "ok")

\* db.add(...); try: db.commit() except IntegrityError: db.rollback(); raise
\* InvalidEntry
commit_insert(d, new) ==
  IF IntegrityError(d, new) THEN Outcome(d, "InvalidEntry")
  ELSE Outcome(Inserted(d, new), "ok")


---------------------------------------------------------------------------
(* Lookups: the joins of the find_* methods.  Each is the set of rows the  *)
(* query matches; .one() raises NoResultFound (MissingEntry) on none.      *)

The(S) == CHOOSE x \in S : TRUE

find_assignment(d, name) == {a \in d.assignment : a.name = name}

find_student(d, sid) == {s \in d.student : s.id = <<sid>>}

find_notebook(d, name, assignment) ==
  {n \in d.notebook :
     /\ n.name = name
     /\ \E a \in d.assignment : a.id = n.assignment_id /\ a.name = assignment}

\* find_grade_cell without the join to the assignment (a mutant).
find_grade_cell_of_any_assignment(d, name, notebook, assignment) ==
  {g \in d.grade_cell :
     /\ g.name = name
     /\ \E n \in d.notebook : n.id = g.notebook_id /\ n.name = notebook}

find_grade_cell(d, name, notebook, assignment) ==
  {g \in d.grade_cell :
     /\ g.name = name
     /\ \E n \in find_notebook(d, notebook, assignment) : n.id = g.notebook_id}

find_solution_cell(d, name, notebook, assignment) ==
  {g \in d.solution_cell :
     /\ g.name = name
     /\ \E n \in find_notebook(d, notebook, assignment) : n.id = g.notebook_id}

find_submission(d, assignment, student) ==
  {s \in d.submitted_assignment :
     /\ \E a \in d.assignment : a.id = s.assignment_id /\ a.name = assignment
     /\ \E t \in d.student : t.id = s.student_id /\ t.id = <<student>>}

find_submission_notebook(d, notebook, assignment, student) ==
  {sn \in d.submitted_notebook :
     /\ \E n \in d.notebook : n.id = sn.notebook_id /\ n.name = notebook
     /\ \E s \in find_submission(d, assignment, student) :
          s.id = sn.assignment_id}

find_grade(d, grade_cell, notebook, assignment, student) ==
  {g \in d.grade :
     /\ \E c \in d.grade_cell : c.id = g.cell_id /\ c.name = grade_cell
     /\ \E sn \in find_submission_notebook(d, notebook, assignment, student) :
          sn.id = g.notebook_id}

find_comment(d, solution_cell, notebook, assignment, student) ==
  {k \in d.comment :
     /\ \E c \in d.solution_cell : c.id = k.cell_id /\ c.name = solution_cell
     /\ \E sn \in find_submission_notebook(d, notebook, assignment, student) :
          sn.id = k.notebook_id}

---------------------------------------------------------------------------
(* Deletion.  A flush deletes the rows handed to db.delete and, for every  *)
(* relationship of a deleted parent (none of them cascades), sets the      *)
(* foreign key of the children left in the parent's collection to NULL.    *)
(* unseen: ids of rows the session's loaded collections do not hold.       *)

Nullified(rows, field, gone, unseen) ==
  {IF r[field] \in gone /\ r.id \notin unseen
     THEN [r EXCEPT ![field] = NoId] ELSE r : r \in rows}

flush_delete(d, del, unseen) ==
  LET gone == Ids(del.assignment) \cup Ids(del.student)
                \cup Ids(del.notebook) \cup Ids(del.grade_cell)
                \cup Ids(del.solution_cell)
                \cup Ids(del.submitted_assignment)
                \cup Ids(del.submitted_notebook)
      N(rows, field) == Nullified(rows, field, gone, unseen)
  IN
  [assignment |-> d.assignment \ del.assignment,
   student |-> d.student \ del.student,
   notebook |-> N(d.notebook \ del.notebook, "assignment_id"),
   grade_cell |-> N(d.grade_cell \ del.grade_cell, "notebook_id"),
   solution_cell |-> N(d.solution_cell \ del.solution_cell, "notebook_id"),
   submitted_assignment |->
     N(N(d.submitted_assignment \ del.submitted_assignment,
         "assignment_id"), "student_id"),
   submitted_notebook |->
     N(N(d.submitted_notebook \ del.submitted_notebook,
         "notebook_id"), "assignment_id"),
   grade |-> N(N(d.grade \ del.grade, "cell_id"), "notebook_id"),
   comment |-> N(N(d.comment \ del.comment, "cell_id"), "notebook_id")]

---------------------------------------------------------------------------
(* The Gradebook's mutations, as functions of the committed store d.       *)
(* used: the ids no new row may take.  Each gives the store it commits and *)
(* how the call ends: "ok" or the name of the exception it raises.         *)

add_student(d, sid) ==
  commit_insert(d, [EmptyDb EXCEPT !.student = {Student(sid)}])

add_assignment(d, used, name) ==
  commit_insert(d, [EmptyDb EXCEPT !.assignment = {Assignment(used, name)}])

add_notebook(d, used, name, assignment) ==
  LET fa == find_assignment(d, assignment) IN
  IF fa = {} THEN Outcome(d, "MissingEntry")
  ELSE commit_insert(d,
         [EmptyDb EXCEPT !.notebook = {Notebook(used, name, The(fa).id)}])

add_grade_cell(d, used, name, notebook, assignment, max_score, cell_type) ==
  LET fn == find_notebook(d, notebook, assignment) IN
  IF fn = {} THEN Outcome(d, "MissingEntry")
  ELSE commit_insert(d,
         [EmptyDb EXCEPT !.grade_cell =
            {GradeCell(used, name, The(fn).id, max_score, cell_type)}])

\* An add_solution_cell that reports a missing notebook as InvalidEntry.
add_solution_cell_invalid_when_missing(d, used, name, notebook, assignment) ==
  LET fn == find_notebook(d, notebook, assignment) IN
  IF fn = {} THEN Outcome(d, "InvalidEntry")
  ELSE commit_insert(d,
         [EmptyDb EXCEPT !.solution_cell =
            {SolutionCell(used, name, The(fn).id)}])

add_solution_cell(d, used, name, notebook, assignment) ==
  LET fn == find_notebook(d, notebook, assignment) IN
  IF fn = {} THEN Outcome(d, "MissingEntry")
  ELSE commit_insert(d,
         [EmptyDb EXCEPT !.solution_cell =
            {SolutionCell(used, name, The(fn).id)}])

\* A submission graph that leaves out the comments.
submission_graph_without_comments(d, used, a, s, timestamp) ==
  LET sub == SubmittedAssignment(used, a.id, s.id, timestamp)
      nbs == {n \in d.notebook : n.assignment_id = a.id}
      nb(n) == SubmittedNotebook(used, n.id, sub.id)
      gcs == {p \in nbs \X d.grade_cell : p[2].notebook_id = p[1].id}
  IN  [EmptyDb EXCEPT
         !.submitted_assignment = {sub},
         !.submitted_notebook = {nb(n) : n \in nbs},
         !.grade = {Grade(used, p[2].id, nb(p[1]).id) : p \in gcs}]

\* A submission graph with a SubmittedNotebook for every notebook of the
\* gradebook, whatever its assignment.
submission_graph_of_every_notebook(d, used, a, s, timestamp) ==
  LET sub == SubmittedAssignment(used, a.id, s.id, timestamp)
      nb(n) == SubmittedNotebook(used, n.id, sub.id)
      gcs == {p \in d.notebook \X d.grade_cell : p[2].notebook_id = p[1].id}
      scs == {p \in d.notebook \X d.solution_cell :
                p[2].notebook_id = p[1].id}
  IN  [EmptyDb EXCEPT
         !.submitted_assignment = {sub},
         !.submitted_notebook = {nb(n) : n \in d.notebook},
         !.grade = {Grade(used, p[2].id, nb(p[1]).id) : p \in gcs},
         !.comment = {Comment(used, p[2].id, nb(p[1]).id) : p \in scs}]

\* The rows add_submission builds for assignment row a and student row s.
submission_graph(d, used, a, s, timestamp) ==
  LET sub == SubmittedAssignment(used, a.id, s.id, timestamp)
      nbs == {n \in d.notebook : n.assignment_id = a.id}
      nb(n) == SubmittedNotebook(used, n.id, sub.id)
      gcs == {p \in nbs \X d.grade_cell : p[2].notebook_id = p[1].id}
      scs == {p \in nbs \X d.solution_cell : p[2].notebook_id = p[1].id}
  IN  [EmptyDb EXCEPT
         !.submitted_assignment = {sub},
         !.submitted_notebook = {nb(n) : n \in nbs},
         !.grade = {Grade(used, p[2].id, nb(p[1]).id) : p \in gcs},
         !.comment = {Comment(used, p[2].id, nb(p[1]).id) : p \in scs}]

add_submission(d, used, assignment, student, timestamp) ==
  LET fa == find_assignment(d, assignment)
      fs == find_student(d, student)
  IN
  IF fa = {} \/ fs = {} THEN Outcome(d, "MissingEntry")
  ELSE commit_insert(d, submission_graph(d, used, The(fa), The(fs),
         IF timestamp = Absent THEN Null ELSE timestamp))

\* The rows of a submission together with the comments of every other
\* submission (a mutant).
submission_rows_with_all_comments(d, sub) ==
  LET nbs == {n \in d.submitted_notebook : n.assignment_id = sub.id}
  IN  [EmptyDb EXCEPT
         !.submitted_assignment = {sub},
         !.submitted_notebook = nbs,
         !.grade = {g \in d.grade : g.notebook_id \in Ids(nbs)},
         !.comment = d.comment]

\* The rows remove_submission hands to db.delete for submission row sub.
submission_rows(d, sub) ==
  LET nbs == {n \in d.submitted_notebook : n.assignment_id = sub.id}
  IN  [EmptyDb EXCEPT
         !.submitted_assignment = {sub},
         !.submitted_notebook = nbs,
         !.grade = {g \in d.grade : g.notebook_id \in Ids(nbs)},
         !.comment = {c \in d.comment : c.notebook_id \in Ids(nbs)}]

\* A remove_submission that deletes the submission row alone.
remove_submission_row_only(d, assignment, student) ==
  LET fs == find_submission(d, assignment, student) IN
  IF fs = {} THEN Outcome(d, "MissingEntry")
  ELSE Outcome(
         flush_delete(d, [EmptyDb EXCEPT !.submitted_assignment = fs], {}),
         "ok")

remove_submission(d, assignment, student) ==
  LET fs == find_submission(d, assignment, student) IN
  IF fs = {} THEN Outcome(d, "MissingEntry")
  ELSE Outcome(flush_delete(d, submission_rows(d, The(fs)), {}), "ok")


---------------------------------------------------------------------------
(* The cascades.  remove_student and remove_assignment call                *)
(* remove_submission, which commits, once per submission of the collection *)
(* they loaded at the start, and then delete and commit the rest.  A       *)
(* commit expires every object of the session: the next attribute read of  *)
(* a row reloads it and raises ObjectDeletedError when the row is gone.    *)

\* The row as the session reads it: the loaded one, or its reload by id.
Reloaded(rows, row, expired) ==
  IF expired THEN {r \in rows : r.id = row.id} ELSE {row}

\* The arguments of a turn of remove_student's loop:
\*   submission.assignment.name
remove_student_args(d, sub, expired) ==
  LET cur == Reloaded(d.submitted_assignment, sub, expired)
      par == IF cur = {} THEN {}
             ELSE {a \in d.assignment : a.id = The(cur).assignment_id}
  IN
  IF cur = {} THEN [status |-> "ObjectDeletedError", arg |-> 0]
  ELSE IF par = {} THEN [status |-> "AttributeError", arg |-> 0]
  ELSE [status |-> "ok", arg |-> The(par).name]

\* The arguments of a turn of remove_assignment's loop:
\*   submission.student.id
remove_assignment_args(d, sub, expired) ==
  LET cur == Reloaded(d.submitted_assignment, sub, expired)
      par == IF cur = {} THEN {}
             ELSE {s \in d.student : s.id = The(cur).student_id}
  IN
  IF cur = {} THEN [status |-> "ObjectDeletedError", arg |-> 0]
  ELSE IF par = {} THEN [status |-> "AttributeError", arg |-> 0]
  ELSE [status |-> "ok", arg |-> The(par).id[1]]

\* One turn of remove_student's loop:
\*   self.remove_submission(submission.assignment.name, name)
remove_student_turn(d, student, sub, expired) ==
  LET args == remove_student_args(d, sub, expired) IN
  IF args.status # "ok" THEN Outcome(d, args.status)
  ELSE remove_submission(d, args.arg, student)

\* One turn of remove_assignment's loop:
\*   self.remove_submission(name, submission.student.id)
remove_assignment_turn(d, name, sub, expired) ==
  LET args == remove_assignment_args(d, sub, expired) IN
  IF args.status # "ok" THEN Outcome(d, args.status)
  ELSE remove_submission(d, name, args.arg)

\* After the loop of remove_student: self.db.delete(student); commit.
\* sid: the id of the student row found at the start.  A row never expired
\* is not reloaded and holds the (empty) collection loaded at the start.
remove_student_end(d, sid, expired) ==
  LET cur == {s \in d.student : s.id = sid} IN
  IF expired /\ cur = {} THEN Outcome(d, "ObjectDeletedError")
  ELSE Outcome(
         flush_delete(d, [EmptyDb EXCEPT !.student = cur],
           IF expired THEN {}
           ELSE Ids({s \in d.submitted_assignment : s.student_id = sid})),
         "ok")

\* An end of remove_assignment that deletes the assignment row alone.
remove_assignment_end_row_only(d, aid, expired) ==
  LET cur == {a \in d.assignment : a.id = aid} IN
  IF expired /\ cur = {} THEN Outcome(d, "ObjectDeletedError")
  ELSE Outcome([d EXCEPT !.assignment = @ \ cur], "ok")

\* After the loop of remove_assignment: delete every grade cell, solution
\* cell and notebook of the assignment, then the assignment; commit.
remove_assignment_end(d, aid, expired) ==
  LET cur == {a \in d.assignment : a.id = aid}
      nbs == {n \in d.notebook : n.assignment_id = aid}
      del == [EmptyDb EXCEPT
                !.assignment = cur,
                !.notebook = nbs,
                !.grade_cell =
                   {g \in d.grade_cell : g.notebook_id \in Ids(nbs)},
                !.solution_cell =
                   {g \in d.solution_cell : g.notebook_id \in Ids(nbs)}]
  IN
  IF expired /\ cur = {} THEN Outcome(d, "ObjectDeletedError")
  ELSE Outcome(
         flush_delete(d, del,
           IF expired THEN {}
           ELSE Ids({s \in d.submitted_assignment : s.assignment_id = aid})),
         "ok")

\* A collection in the order the loop visits it.
RECURSIVE AsSeq(_)
AsSeq(S) ==
  IF S = {} THEN <<>>
  ELSE LET x == CHOOSE y \in S : TRUE IN <<x>> \o AsSeq(S \ {x})

RECURSIVE student_loop(_, _, _, _)
student_loop(d, name, pending, expired) ==
  IF pending = <<>> THEN [db |-> d, status |-> "ok", expired |-> expired]
  ELSE LET r == remove_student_turn(d, name, Head(pending), expired) IN
       IF r.status # "ok"
         THEN [db |-> r.db, status |-> r.status, expired |-> expired]
         ELSE student_loop(r.db, name, Tail(pending), TRUE)

RECURSIVE assignment_loop(_, _, _, _)
assignment_loop(d, name, pending, expired) ==
  IF pending = <<>> THEN [db |-> d, status |-> "ok", expired |-> expired]
  ELSE LET r == remove_assignment_turn(d, name, Head(pending), expired) IN
       IF r.status # "ok"
         THEN [db |-> r.db, status |-> r.status, expired |-> expired]
         ELSE assignment_loop(r.db, name, Tail(pending), TRUE)

remove_student(d, name) ==
  LET fs == find_student(d, name) IN
  IF fs = {} THEN Outcome(d, "MissingEntry")
  ELSE LET subs == {s \in d.submitted_assignment :
                      s.student_id = The(fs).id}
           r == student_loop(d, name, AsSeq(subs), FALSE)
       IN  IF r.status # "ok" THEN Outcome(r.db, r.status)
           ELSE remove_student_end(r.db, The(fs).id, r.expired)

remove_assignment(d, name) ==
  LET fa == find_assignment(d, name) IN
  IF fa = {} THEN Outcome(d, "MissingEntry")
  ELSE LET subs == {s \in d.submitted_assignment :
                      s.assignment_id = The(fa).id}
           r == assignment_loop(d, name, AsSeq(subs), FALSE)
       IN  IF r.status # "ok" THEN Outcome(r.db, r.status)
           ELSE remove_assignment_end(r.db, The(fa).id, r.expired)


---------------------------------------------------------------------------
(* update_or_create_*: find, add when the find raises MissingEntry, else   *)
(* set the attributes passed and commit.                                   *)

Replaced(rows, old, new) == (rows \ {old}) \cup {new}

update_or_create_student(d, sid) ==
  IF find_student(d, sid) = {} THEN add_student(d, sid)
  ELSE Outcome(d, "ok")

update_or_create_assignment(d, used, name) ==
  IF find_assignment(d, name) = {} THEN add_assignment(d, used, name)
  ELSE Outcome(d, "ok")

update_or_create_notebook(d, used, name, assignment) ==
  IF find_notebook(d, name, assignment) = {}
    THEN add_notebook(d, used, name, assignment)
  ELSE Outcome(d, "ok")

update_or_create_grade_cell(d, used, name, nb, a, max_score, cell_type) ==
  LET fg == find_grade_cell(d, name, nb, a) IN
  IF fg = {}
    THEN add_grade_cell(d, used, name, nb, a, max_score, cell_type)
  ELSE Outcome(
         [d EXCEPT !.grade_cell =
            Replaced(@, The(fg),
              [The(fg) EXCEPT !.max_score = max_score,
                              !.cell_type = cell_type])],
         "ok")

update_or_create_solution_cell(d, used, name, notebook, assignment) ==
  IF find_solution_cell(d, name, notebook, assignment) = {}
    THEN add_solution_cell(d, used, name, notebook, assignment)
  ELSE Outcome(d, "ok")

\* An update_or_create_submission that adds without looking first.
update_or_create_submission_unfound(d, used, assignment, student, timestamp) ==
  add_submission(d, used, assignment, student, timestamp)

\* An update_or_create_submission that replaces the submission it finds by
\* a new one.
update_or_create_submission_replacing(d, used, assignment, student, timestamp) ==
  add_submission(remove_submission(d, assignment, student).db, used,
                 assignment, student, timestamp)

update_or_create_submission(d, used, assignment, student, timestamp) ==
  LET fs == find_submission(d, assignment, student) IN
  IF fs = {} THEN add_submission(d, used, assignment, student, timestamp)
  ELSE Outcome(
         [d EXCEPT !.submitted_assignment =
            Replaced(@, The(fs),
              [The(fs) EXCEPT !.timestamp =
                 IF timestamp = Absent THEN @ ELSE timestamp])],
         "ok")

---------------------------------------------------------------------------
(* Grading: the autograder and the instructor set a column of a Grade or  *)
(* Comment row they hold and commit.                                       *)

set_auto_score(d, grade, score) ==
  [d EXCEPT !.grade = Replaced(@, grade, [grade EXCEPT !.auto_score = score])]

set_manual_score(d, grade, score) ==
  [d EXCEPT !.grade =
     Replaced(@, grade, [grade EXCEPT !.manual_score = score])]

set_comment(d, comment, text) ==
  [d EXCEPT !.comment =
     Replaced(@, comment, [comment EXCEPT !.comment = text])]


---------------------------------------------------------------------------
(* The derived column properties: each is the SQL expression of the source *)
(* evaluated on the store d.  An aggregate ranges over the rows of its     *)
(* FROM list that satisfy its WHERE clause (tuples of rows, for a join);   *)
(* sum() of no row is NULL, a scalar subquery matching no row is NULL, and *)
(* a comparison with NULL is NULL (SqlNull), which no WHERE clause and no  *)
(* EXISTS takes for true.                                                  *)

SqlTrue == "true"
SqlFalse == "false"
SqlNull == "null"

\* P: a set of <<rows, value>>, one per row of the join.
RECURSIVE Total(_)
Total(P) ==
  IF P = {} THEN 0
  ELSE LET p == CHOOSE q \in P : TRUE IN p[2] + Total(P \ {p})

sum(P) == IF P = {} THEN Null ELSE Total(P)

coalesce(x, y) == IF x = Null THEN y ELSE x

\* A scalar subquery: the one value selected, NULL when no row matches.
scalar(V, null) == IF V = {} THEN null ELSE The(V)

sql_lt(x, y) ==
  IF x = Null \/ y = Null THEN SqlNull
  ELSE IF x < y THEN SqlTrue ELSE SqlFalse

sql_eq(x, y) ==
  IF x = SqlNull \/ y = SqlNull THEN SqlNull
  ELSE IF x = y THEN SqlTrue ELSE SqlFalse

sql_and(x, y) ==
  IF x = SqlFalse \/ y = SqlFalse THEN SqlFalse
  ELSE IF x = SqlNull \/ y = SqlNull THEN SqlNull
  ELSE SqlTrue

\* A score that takes a manual score of 0 for none.
Grade_score_truthy(g) ==
  IF g.manual_score # Null /\ g.manual_score # 0 THEN g.manual_score
  ELSE IF g.auto_score # Null THEN g.auto_score
  ELSE 0

Grade_score(g) ==
  IF g.manual_score # Null THEN g.manual_score
  ELSE IF g.auto_score # Null THEN g.auto_score
  ELSE 0

\* A flag that looks at the auto score alone.
Grade_needs_manual_grade_auto_only(g) == g.auto_score = Null

Grade_needs_manual_grade(g) == g.auto_score = Null /\ g.manual_score = Null

Grade_max_score(d, g) ==
  scalar({c.max_score : c \in {x \in d.grade_cell : g.cell_id = x.id}}, Null)

Grade_cell_type(d, g) ==
  scalar({c.cell_type : c \in {x \in d.grade_cell : g.cell_id = x.id}},
         SqlNull)

\* A flag that compares the score, manual first, with the maximum.
Grade_failed_tests_by_score(d, g) ==
  sql_and(sql_lt(Grade_score(g), Grade_max_score(d, g)),
          sql_eq(Grade_cell_type(d, g), "code"))

Grade_failed_tests(d, g) ==
  sql_and(sql_lt(g.auto_score, Grade_max_score(d, g)),
          sql_eq(Grade_cell_type(d, g), "code"))

(* Needs manual grade *)

SubmittedNotebook_needs_manual_grade(d, sn) ==
  \E g \in d.grade : g.notebook_id = sn.id /\ Grade_needs_manual_grade(g)

SubmittedAssignment_needs_manual_grade(d, sa) ==
  \E sn \in d.submitted_notebook : \E g \in d.grade :
    /\ sn.assignment_id = sa.id
    /\ g.notebook_id = sn.id
    /\ Grade_needs_manual_grade(g)

Notebook_needs_manual_grade(d, nb) ==
  \E sn \in d.submitted_notebook : \E g \in d.grade :
    /\ nb.id = sn.notebook_id
    /\ g.notebook_id = sn.id
    /\ Grade_needs_manual_grade(g)

(* Overall scores *)

SubmittedNotebook_score(d, sn) ==
  coalesce(sum({<<g, Grade_score(g)>> :
                  g \in {x \in d.grade : x.notebook_id = sn.id}}), 0)

\* A sum over the grades of every submission.
SubmittedAssignment_score_of_all(d, sa) ==
  coalesce(sum({<<g, Grade_score(g)>> : g \in d.grade}), 0)

SubmittedAssignment_score(d, sa) ==
  coalesce(sum({<<p, Grade_score(p[1])>> :
                  p \in {q \in d.grade \X d.submitted_notebook :
                           /\ q[2].assignment_id = sa.id
                           /\ q[1].notebook_id = q[2].id}}), 0)

Student_score(d, st) ==
  coalesce(sum({<<p, Grade_score(p[1])>> :
                  p \in {q \in d.grade \X d.submitted_notebook
                                \X d.submitted_assignment :
                           /\ q[3].student_id = st.id
                           /\ q[2].assignment_id = q[3].id
                           /\ q[1].notebook_id = q[2].id}}), 0)

(* Overall max scores *)

Notebook_max_score(d, nb) ==
  coalesce(sum({<<c, c.max_score>> :
                  c \in {x \in d.grade_cell : x.notebook_id = nb.id}}), 0)

SubmittedNotebook_max_score(d, sn) ==
  scalar({Notebook_max_score(d, nb) :
            nb \in {x \in d.notebook : sn.notebook_id = x.id}}, Null)

Assignment_max_score(d, a) ==
  coalesce(sum({<<p, p[1].max_score>> :
                  p \in {q \in d.grade_cell \X d.notebook :
                           /\ q[2].assignment_id = a.id
                           /\ q[1].notebook_id = q[2].id}}), 0)

SubmittedAssignment_max_score(d, sa) ==
  scalar({Assignment_max_score(d, a) :
            a \in {x \in d.assignment : sa.assignment_id = x.id}}, Null)

\* A Student.max_score summed over the assignments the student has
\* submitted.
Student_max_score_of_submitted(d, st) ==
  coalesce(sum({<<a, Assignment_max_score(d, a)>> :
                  a \in {x \in d.assignment :
                           \E s \in d.submitted_assignment :
                             /\ s.assignment_id = x.id
                             /\ s.student_id = st.id}}), 0)

Student_max_score(d, st) ==
  coalesce(sum({<<a, Assignment_max_score(d, a)>> : a \in d.assignment}), 0)


(* Written and code scores: the same sums, joined to the grade cell and    *)
(* restricted to one cell_type.                                            *)

typed_notebook_score(d, sn, cell_type) ==
  coalesce(sum({<<p, Grade_score(p[1])>> :
                  p \in {q \in d.grade \X d.grade_cell :
                           /\ q[1].notebook_id = sn.id
                           /\ q[2].id = q[1].cell_id
                           /\ q[2].cell_type = cell_type}}), 0)

typed_assignment_score(d, sa, cell_type) ==
  coalesce(sum({<<p, Grade_score(p[1])>> :
                  p \in {q \in d.grade \X d.grade_cell
                                \X d.submitted_notebook :
                           /\ q[3].assignment_id = sa.id
                           /\ q[1].notebook_id = q[3].id
                           /\ q[2].id = q[1].cell_id
                           /\ q[2].cell_type = cell_type}}), 0)

SubmittedNotebook_written_score(d, sn) ==
  typed_notebook_score(d, sn, "markdown")

SubmittedAssignment_written_score(d, sa) ==
  typed_assignment_score(d, sa, "markdown")

SubmittedNotebook_code_score(d, sn) == typed_notebook_score(d, sn, "code")

SubmittedAssignment_code_score(d, sa) == typed_assignment_score(d, sa, "code")

(* Written and code max scores *)

Notebook_max_written_score(d, nb) ==
  coalesce(sum({<<c, c.max_score>> :
                  c \in {x \in d.grade_cell :
                           /\ x.notebook_id = nb.id
                           /\ x.cell_type = "markdown"}}), 0)

SubmittedNotebook_max_written_score(d, sn) ==
  scalar({Notebook_max_written_score(d, nb) :
            nb \in {x \in d.notebook : x.id = sn.notebook_id}}, Null)

Assignment_max_written_score(d, a) ==
  coalesce(sum({<<p, p[1].max_score>> :
                  p \in {q \in d.grade_cell \X d.notebook :
                           /\ q[2].assignment_id = a.id
                           /\ q[1].notebook_id = q[2].id
                           /\ q[1].cell_type = "markdown"}}), 0)

SubmittedAssignment_max_written_score(d, sa) ==
  scalar({Assignment_max_written_score(d, a) :
            a \in {x \in d.assignment : x.id = sa.assignment_id}}, Null)

\* A sum over the cells of every type.
Notebook_max_code_score_untyped(d, nb) ==
  coalesce(sum({<<c, c.max_score>> :
                  c \in {x \in d.grade_cell : x.notebook_id = nb.id}}), 0)

Notebook_max_code_score(d, nb) ==
  coalesce(sum({<<c, c.max_score>> :
                  c \in {x \in d.grade_cell :
                           /\ x.notebook_id = nb.id
                           /\ x.cell_type = "code"}}), 0)

SubmittedNotebook_max_code_score(d, sn) ==
  scalar({Notebook_max_code_score(d, nb) :
            nb \in {x \in d.notebook : x.id = sn.notebook_id}}, Null)

Assignment_max_code_score(d, a) ==
  coalesce(sum({<<p, p[1].max_score>> :
                  p \in {q \in d.grade_cell \X d.notebook :
                           /\ q[2].assignment_id = a.id
                           /\ q[1].notebook_id = q[2].id
                           /\ q[1].cell_type = "code"}}), 0)

SubmittedAssignment_max_code_score(d, sa) ==
  scalar({Assignment_max_code_score(d, a) :
            a \in {x \in d.assignment : x.id = sa.assignment_id}}, Null)

(* Number of submissions *)

Assignment_num_submissions(d, a) ==
  Cardinality({s \in d.submitted_assignment : s.assignment_id = a.id})

Notebook_num_submissions(d, nb) ==
  Cardinality({s \in d.submitted_notebook : s.notebook_id = nb.id})

(* Failed tests *)

SubmittedNotebook_failed_tests(d, sn) ==
  \E g \in d.grade :
    g.notebook_id = sn.id /\ Grade_failed_tests(d, g) = SqlTrue


(* Lateness.  Times and intervals are whole seconds, None is Null.  A      *)
(* property that raises gives the status of its exception.                 *)

MaxSeconds == 4

\* orig_duedate + self.extension raises TypeError when orig_duedate is None.
SubmittedAssignment_duedate(duedate, extension) ==
  IF extension # Null
    THEN IF duedate = Null THEN [status |-> "TypeError", value |-> Null]
         ELSE [status |-> "ok", value |-> duedate + extension]
  ELSE [status |-> "ok", value |-> duedate]

\* "or" does not read self.duedate when the timestamp is None.
SubmittedAssignment_total_seconds_late(timestamp, duedate, extension) ==
  LET due == SubmittedAssignment_duedate(duedate, extension) IN
  IF timestamp = Null THEN [status |-> "ok", value |-> 0]
  ELSE IF due.status # "ok" THEN due
  ELSE IF due.value = Null THEN [status |-> "ok", value |-> 0]
  ELSE [status |-> "ok",
        value |-> IF timestamp - due.value > 0 THEN timestamp - due.value
                  ELSE 0]

---------------------------------------------------------------------------
(* Reports: the queries that return one dictionary per row of a join.      *)

\* scores: the grouped subquery; the full query selects from student LEFT
\* OUTER JOIN scores and from grade_cell, grouped by the student.
student_dicts(d) ==
  LET scores ==
        {[id |-> s.id,
          score |-> sum({<<p, Grade_score(p[1])>> :
                           p \in {q \in d.grade \X d.submitted_notebook
                                         \X d.submitted_assignment :
                                    /\ q[3].student_id = s.id
                                    /\ q[2].assignment_id = q[3].id
                                    /\ q[1].notebook_id = q[2].id}})] :
           s \in {t \in d.student :
                    \E q \in d.grade \X d.submitted_notebook
                               \X d.submitted_assignment :
                      /\ q[3].student_id = t.id
                      /\ q[2].assignment_id = q[3].id
                      /\ q[1].notebook_id = q[2].id}}
      rows == d.student \X d.grade_cell
  IN  {[id |-> s.id,
        score |-> coalesce(scalar({x.score : x \in {y \in scores :
                                                      y.id = s.id}}, Null),
                           0),
        max_score |-> sum({<<r, r[2].max_score>> :
                             r \in {x \in rows : x[1] = s}})] :
         s \in {r[1] : r \in rows}}

\* The rows of submitted_notebook JOIN submitted_assignment JOIN notebook
\* JOIN assignment JOIN student JOIN grade JOIN grade_cell, each join on
\* the foreign key between the two tables, as <<submitted notebook,
\* notebook, assignment, student, grade, grade cell>>.
graded_submissions(d) ==
  {q \in d.submitted_notebook \X d.notebook \X d.assignment \X d.student
           \X d.grade \X d.grade_cell :
     /\ \E sa \in d.submitted_assignment :
          /\ q[1].assignment_id = sa.id
          /\ sa.student_id = q[4].id
     /\ q[1].notebook_id = q[2].id
     /\ q[2].assignment_id = q[3].id
     /\ q[5].notebook_id = q[1].id
     /\ q[5].cell_id = q[6].id}

\* typed(t): the subqueries code_scores and written_scores; flagged(F): the
\* subqueries manual_grade and failed_tests, NULL where they have no row.
notebook_submission_dicts(d, notebook_id, assignment_id) ==
  LET typed(t) ==
        {[id |-> sn.id,
          score |-> sum({<<q, Grade_score(q[5])>> :
                           q \in {x \in graded_submissions(d) :
                                    x[1] = sn /\ x[6].cell_type = t}}),
          max_score |-> sum({<<q, q[6].max_score>> :
                               q \in {x \in graded_submissions(d) :
                                        x[1] = sn /\ x[6].cell_type = t}})] :
           sn \in {x[1] : x \in {y \in graded_submissions(d) :
                                   y[6].cell_type = t}}}
      flagged(F(_)) ==
        {sn.id : sn \in {x \in d.submitted_notebook :
                           /\ \E sa \in d.submitted_assignment,
                                 a \in d.assignment, nb \in d.notebook :
                                /\ x.assignment_id = sa.id
                                /\ sa.assignment_id = a.id
                                /\ nb.assignment_id = a.id
                           /\ \E g \in d.grade :
                                g.notebook_id = x.id /\ F(g)}}
      NeedsManualGrade(g) == Grade_needs_manual_grade(g)
      FailedTests(g) == Grade_failed_tests(d, g) = SqlTrue
      rows == {q \in graded_submissions(d) :
                 q[2].name = notebook_id /\ q[3].name = assignment_id}
      Of(st) == {q \in rows : q[4] = st}
  IN  {LET sn == The(Of(st))[1]
           code == {x \in typed("code") : x.id = sn.id}
           written == {x \in typed("markdown") : x.id = sn.id}
       IN  [id |-> sn.id,
            score |-> sum({<<q, Grade_score(q[5])>> : q \in Of(st)}),
            max_score |-> sum({<<q, q[6].max_score>> : q \in Of(st)}),
            code_score |-> scalar({x.score : x \in code}, Null),
            max_code_score |-> scalar({x.max_score : x \in code}, Null),
            written_score |-> scalar({x.score : x \in written}, Null),
            max_written_score |->
              scalar({x.max_score : x \in written}, Null),
            needs_manual_grade |-> sn.id \in flagged(NeedsManualGrade),
            failed_tests |-> sn.id \in flagged(FailedTests)] :
         st \in {q[4] : q \in rows}}

(* Averages.  score_sum / num_submissions is a float: it is kept as the    *)
(* pair <<score_sum, num_submissions>>, and 0.0 as <<0, 1>>.  The typed    *)
(* variants are the code and the written ones.                             *)

\* An average without the test for no submissions (a mutant).
average_assignment_score_of_all(d, assignment_id) ==
  LET fa == find_assignment(d, assignment_id) IN
  IF fa = {} THEN [status |-> "MissingEntry", value |-> <<0, 1>>]
  ELSE [status |-> "ok",
        value |-> <<coalesce(sum({<<g, Grade_score(g)>> : g \in d.grade}), 0),
                    Assignment_num_submissions(d, The(fa))>>]

average_assignment_score(d, assignment_id) ==
  LET fa == find_assignment(d, assignment_id) IN
  IF fa = {} THEN [status |-> "MissingEntry", value |-> <<0, 1>>]
  ELSE IF Assignment_num_submissions(d, The(fa)) = 0
    THEN [status |-> "ok", value |-> <<0, 1>>]
  ELSE [status |-> "ok",
        value |->
          <<coalesce(sum({<<q, Grade_score(q[1])>> :
                            q \in {x \in d.grade \X d.grade_cell
                                          \X d.notebook \X d.assignment :
                                     /\ x[1].cell_id = x[2].id
                                     /\ x[2].notebook_id = x[3].id
                                     /\ x[3].assignment_id = x[4].id
                                     /\ x[4].name = assignment_id}}), 0),
            Assignment_num_submissions(d, The(fa))>>]

average_assignment_typed_score(d, assignment_id, cell_type) ==
  LET fa == find_assignment(d, assignment_id) IN
  IF fa = {} THEN [status |-> "MissingEntry", value |-> <<0, 1>>]
  ELSE IF Assignment_num_submissions(d, The(fa)) = 0
    THEN [status |-> "ok", value |-> <<0, 1>>]
  ELSE [status |-> "ok",
        value |->
          <<coalesce(sum({<<q, Grade_score(q[1])>> :
                            q \in {x \in d.grade \X d.grade_cell
                                          \X d.notebook \X d.assignment :
                                     /\ x[1].cell_id = x[2].id
                                     /\ x[2].notebook_id = x[3].id
                                     /\ x[3].assignment_id = x[4].id
                                     /\ x[4].name = assignment_id
                                     /\ x[2].cell_type = cell_type}}), 0),
            Assignment_num_submissions(d, The(fa))>>]

average_notebook_score(d, notebook_id, assignment_id) ==
  LET fn == find_notebook(d, notebook_id, assignment_id) IN
  IF fn = {} THEN [status |-> "MissingEntry", value |-> <<0, 1>>]
  ELSE IF Notebook_num_submissions(d, The(fn)) = 0
    THEN [status |-> "ok", value |-> <<0, 1>>]
  ELSE [status |-> "ok",
        value |->
          <<coalesce(sum({<<q, Grade_score(q[1])>> :
                            q \in {x \in d.grade \X d.submitted_notebook
                                          \X d.notebook \X d.assignment :
                                     /\ x[1].notebook_id = x[2].id
                                     /\ x[2].notebook_id = x[3].id
                                     /\ x[3].assignment_id = x[4].id
                                     /\ x[3].name = notebook_id
                                     /\ x[4].name = assignment_id}}), 0),
            Notebook_num_submissions(d, The(fn))>>]

average_notebook_typed_score(d, notebook_id, assignment_id, cell_type) ==
  LET fn == find_notebook(d, notebook_id, assignment_id) IN
  IF fn = {} THEN [status |-> "MissingEntry", value |-> <<0, 1>>]
  ELSE IF Notebook_num_submissions(d, The(fn)) = 0
    THEN [status |-> "ok", value |-> <<0, 1>>]
  ELSE [status |-> "ok",
        value |->
          <<coalesce(sum({<<q, Grade_score(q[1])>> :
                            q \in {x \in d.grade \X d.grade_cell
                                          \X d.notebook \X d.assignment :
                                     /\ x[1].cell_id = x[2].id
                                     /\ x[2].notebook_id = x[3].id
                                     /\ x[3].assignment_id = x[4].id
                                     /\ x[3].name = notebook_id
                                     /\ x[4].name = assignment_id
                                     /\ x[2].cell_type = cell_type}}), 0),
            Notebook_num_submissions(d, The(fn))>>]

---------------------------------------------------------------------------
(* Callers.  pc[c] is where caller c stands: "idle" between calls, "done"  *)
(* when a call has ended and its outcome is in loc[c], and inside a        *)
(* cascade "loop" or "end".  loc[c] holds the call (op and its arguments:  *)
(* a, s, n, g name the assignment, student, notebook and cell), how it     *)
(* ended (status), and what the session holds during a cascade: target,    *)
(* the id of the row being removed; pending, the submissions of the        *)
(* collection not yet visited; arg, the argument read for this turn;       *)
(* expired, whether a commit has expired the loaded objects; removed, the  *)
(* ids of the submissions this call has removed so far; transaction, which *)
(* outlives the call: "inactive" once a flush has failed in the session    *)
(* and until db.rollback() is called.                                      *)

Blank ==
  [op |-> "none", a |-> 0, s |-> 0, n |-> 0, g |-> 0, status |-> "none",
   target |-> NoId, pending |-> <<>>, arg |-> 0, expired |-> FALSE,
   removed |-> {}, transaction |-> "active"]

Call(op, a, s, n, g) ==
  [Blank EXCEPT !.op = op, !.a = a, !.s = s, !.n = n, !.g = g]

HeldIds ==
  UNION {{loc[c].target}
           \cup {loc[c].pending[i].id : i \in DOMAIN loc[c].pending}
           \cup {loc[c].pending[i].assignment_id :
                   i \in DOMAIN loc[c].pending}
           \cup {loc[c].pending[i].student_id : i \in DOMAIN loc[c].pending}
         : c \in Callers}

Used == DbIds(db) \cup HeldIds

(* The arguments the callers pass, per specification: the names in use,    *)
(* the values of max_score (points), cell_type (types), auto_score (auto), *)
(* manual_score (manual), timestamp (times; Absent: not passed) and        *)
(* comment (texts), and the size the tables may grow to.                   *)

\* Every operation on few values.
Structure ==
  [assignments |-> 1..NumAssignments, students |-> 1..NumStudents,
   notebooks |-> 1..NumNotebooks, grade_cells |-> {1},
   solution_cells |-> 1..NumSolutionCells,
   points |-> {MaxPoints}, types |-> {"code"},
   auto |-> {MaxGrade}, manual |-> {MaxGrade},
   times |-> {Absent} \cup 1..MaxTime, texts |-> 1..MaxTime,
   grade_cell_rows |-> MaxGradeCellRows,
   submission_rows |-> MaxSubmissionRows,
   grade_rows |-> MaxGradeRows]

\* The operations the scores depend on, on every value.
Grading ==
  [Structure EXCEPT !.assignments = {1}, !.grade_cells = 1..NumGradeCells,
                    !.points = 1..MaxPoints, !.types = CellTypes,
                    !.auto = 0..MaxGrade, !.manual = {Null} \cup 0..MaxGrade,
                    !.times = {Absent}]

\* The whole call in one step: the store it commits and its outcome.
Finish(c, call, r) ==
  /\ pc[c] = "idle"
  /\ db' = r.db
  /\ pc' = [pc EXCEPT ![c] = "done"]
  /\ loc' = [loc EXCEPT ![c] = [call EXCEPT !.status = r.status]]

Init ==
  /\ db = EmptyDb
  /\ pc = [c \in Callers |-> "idle"]
  /\ loc = [c \in Callers |-> Blank]

AddStudent(c, I) ==
  \E s \in I.students :
    Finish(c, Call("add_student", 0, s, 0, 0), add_student(db, s))

AddAssignment(c, I) ==
  \E a \in I.assignments :
    Finish(c, Call("add_assignment", a, 0, 0, 0),
           add_assignment(db, Used, a))

AddNotebook(c, I) ==
  \E a \in I.assignments, n \in I.notebooks :
    Finish(c, Call("add_notebook", a, 0, n, 0),
           add_notebook(db, Used, n, a))

AddGradeCell(c, I) ==
  \E a \in I.assignments, n \in I.notebooks, g \in I.grade_cells,
     m \in I.points, t \in I.types :
    /\ Cardinality(db.grade_cell) < I.grade_cell_rows
    /\ Finish(c, Call("add_grade_cell", a, 0, n, g),
              add_grade_cell(db, Used, g, n, a, m, t))

AddSolutionCell(c, I) ==
  \E a \in I.assignments, n \in I.notebooks, g \in I.solution_cells :
    Finish(c, Call("add_solution_cell", a, 0, n, g),
           add_solution_cell(db, Used, g, n, a))

AddSubmission(c, I) ==
  \E a \in I.assignments, s \in I.students, t \in I.times :
    LET r == add_submission(db, Used, a, s, t) IN
    /\ Cardinality(db.submitted_assignment) < I.submission_rows
    /\ Cardinality(r.db.grade) <= I.grade_rows
    /\ Finish(c, Call("add_submission", a, s, 0, 0), r)

UpdateOrCreateStudent(c, I) ==
  \E s \in I.students :
    Finish(c, Call("update_or_create_student", 0, s, 0, 0),
           update_or_create_student(db, s))

UpdateOrCreateAssignment(c, I) ==
  \E a \in I.assignments :
    Finish(c, Call("update_or_create_assignment", a, 0, 0, 0),
           update_or_create_assignment(db, Used, a))

UpdateOrCreateNotebook(c, I) ==
  \E a \in I.assignments, n \in I.notebooks :
    Finish(c, Call("update_or_create_notebook", a, 0, n, 0),
           update_or_create_notebook(db, Used, n, a))

UpdateOrCreateGradeCell(c, I) ==
  \E a \in I.assignments, n \in I.notebooks, g \in I.grade_cells,
     m \in I.points, t \in I.types :
    /\ \/ Cardinality(db.grade_cell) < I.grade_cell_rows
       \/ find_grade_cell(db, g, n, a) # {}
    /\ Finish(c, Call("update_or_create_grade_cell", a, 0, n, g),
              update_or_create_grade_cell(db, Used, g, n, a, m, t))

UpdateOrCreateSolutionCell(c, I) ==
  \E a \in I.assignments, n \in I.notebooks, g \in I.solution_cells :
    Finish(c, Call("update_or_create_solution_cell", a, 0, n, g),
           update_or_create_solution_cell(db, Used, g, n, a))

UpdateOrCreateSubmission(c, I) ==
  \E a \in I.assignments, s \in I.students, t \in I.times :
    LET r == update_or_create_submission(db, Used, a, s, t) IN
    /\ \/ Cardinality(db.submitted_assignment) < I.submission_rows
       \/ find_submission(db, a, s) # {}
    /\ Cardinality(r.db.grade) <= I.grade_rows
    /\ Finish(c, Call("update_or_create_submission", a, s, 0, 0), r)

RemoveSubmission(c, I) ==
  \E a \in I.assignments, s \in I.students :
    Finish(c, Call("remove_submission", a, s, 0, 0),
           remove_submission(db, a, s))

\* The ids of the submissions of the store that d no longer holds.
Removed(d) == Ids(db.submitted_assignment) \ Ids(d.submitted_assignment)

RemoveStudent(c, I) ==
  \E s \in I.students :
    LET r == remove_student(db, s) IN
    Finish(c, [Call("remove_student", 0, s, 0, 0) EXCEPT
                 !.removed = Removed(r.db)], r)

RemoveAssignment(c, I) ==
  \E a \in I.assignments :
    LET r == remove_assignment(db, a) IN
    Finish(c, [Call("remove_assignment", a, 0, 0, 0) EXCEPT
                 !.removed = Removed(r.db)], r)

SetAutoScore(c, I) ==
  \E g \in db.grade, v \in I.auto :
    Finish(c, [Call("set_auto_score", 0, 0, 0, 0) EXCEPT !.target = g.id],
           Outcome(set_auto_score(db, g, v), "ok"))

SetManualScore(c, I) ==
  \E g \in db.grade, v \in I.manual :
    Finish(c, [Call("set_manual_score", 0, 0, 0, 0) EXCEPT !.target = g.id],
           Outcome(set_manual_score(db, g, v), "ok"))

SetComment(c, I) ==
  \E k \in db.comment, v \in I.texts :
    Finish(c, [Call("set_comment", 0, 0, 0, 0) EXCEPT !.target = k.id],
           Outcome(set_comment(db, k, v), "ok"))

\* The call returns (or its exception reaches the caller).
Return(c) ==
  /\ pc[c] = "done"
  /\ pc' = [pc EXCEPT ![c] = "idle"]
  /\ loc' = [loc EXCEPT
              ![c] = [Blank EXCEPT !.transaction = loc[c].transaction]]
  /\ UNCHANGED db

Next ==
  \E c \in {1} :
    \/ AddStudent(c, Structure)
    \/ AddAssignment(c, Structure)
    \/ AddNotebook(c, Structure)
    \/ AddGradeCell(c, Structure)
    \/ AddSolutionCell(c, Structure)
    \/ AddSubmission(c, Structure)
    \/ UpdateOrCreateStudent(c, Structure)
    \/ UpdateOrCreateAssignment(c, Structure)
    \/ UpdateOrCreateNotebook(c, Structure)
    \/ UpdateOrCreateGradeCell(c, Structure)
    \/ UpdateOrCreateSolutionCell(c, Structure)
    \/ UpdateOrCreateSubmission(c, Structure)
    \/ RemoveSubmission(c, Structure)
    \/ RemoveStudent(c, Structure)
    \/ RemoveAssignment(c, Structure)
    \/ SetAutoScore(c, Structure)
    \/ SetComment(c, Structure)
    \/ Return(c)

Spec == Init /\ [][Next]_vars

NextGrade ==
  \E c \in {1} :
    \/ AddStudent(c, Grading)
    \/ AddAssignment(c, Grading)
    \/ AddNotebook(c, Grading)
    \/ AddGradeCell(c, Grading)
    \/ UpdateOrCreateGradeCell(c, Grading)
    \/ AddSubmission(c, Grading)
    \/ RemoveSubmission(c, Grading)
    \/ RemoveAssignment(c, Grading)
    \/ SetAutoScore(c, Grading)
    \/ SetManualScore(c, Grading)
    \/ Return(c)

SpecGrade == Init /\ [][NextGrade]_vars


---------------------------------------------------------------------------
(* Two sessions on one store.  The first sets up a class, in which every  *)
(* student has submitted every assignment, by the calls of Script, each    *)
(* one step, and is then free to make its calls.  A cascade takes one step *)
(* where it finds its row and loads the collection (Begin), one where a    *)
(* turn of its loop reads the arguments of remove_submission (Args), one   *)
(* for that call, which commits (Call), and one for the deletes and the    *)
(* commit after the loop (End).  Between two steps the other session may   *)
(* commit.                                                                 *)

\* The calls that set up the class.
Script ==
  <<Call("add_student", 0, 1, 0, 0),
    Call("add_student", 0, 2, 0, 0),
    Call("add_assignment", 1, 0, 0, 0),
    Call("add_assignment", 2, 0, 0, 0),
    Call("add_notebook", 1, 0, 1, 0),
    Call("add_notebook", 2, 0, 1, 0),
    Call("add_grade_cell", 1, 0, 1, 1),
    Call("add_submission", 1, 1, 0, 0),
    Call("add_submission", 1, 2, 0, 0),
    Call("add_submission", 2, 1, 0, 0),
    Call("add_submission", 2, 2, 0, 0)>>

\* What the call of the script gives on the store d.
Scripted(d, used, call) ==
  CASE call.op = "add_student" -> add_student(d, call.s)
    [] call.op = "add_assignment" -> add_assignment(d, used, call.a)
    [] call.op = "add_notebook" -> add_notebook(d, used, call.n, call.a)
    [] call.op = "add_grade_cell" ->
         add_grade_cell(d, used, call.g, call.n, call.a, MaxPoints, "code")
    [] call.op = "add_submission" ->
         add_submission(d, used, call.a, call.s, Absent)

InitConc ==
  /\ db = EmptyDb
  /\ pc = [c \in Callers |-> IF c = 1 THEN "setup" ELSE "idle"]
  /\ loc = [c \in Callers |-> Blank]

\* The next call of the script; loc[c].n counts the calls made.
SetUp(c) ==
  LET k == loc[c].n + 1 IN
  /\ pc[c] = "setup"
  /\ db' = Scripted(db, Used, Script[k]).db
  /\ pc' = [pc EXCEPT ![c] = IF k = Len(Script) THEN "idle" ELSE "setup"]
  /\ loc' = [loc EXCEPT ![c].n = IF k = Len(Script) THEN 0 ELSE k]

\* The orders in which a query without ORDER BY may give the rows S.
Orders(S) ==
  {q \in [1..Cardinality(S) -> S] : \A i, j \in DOMAIN q : q[i] = q[j] => i = j}

\* The call ends here with status.
Ends(c, status) ==
  /\ pc' = [pc EXCEPT ![c] = "done"]
  /\ loc' = [loc EXCEPT ![c].status = status]

\* student = self.find_student(name); student.submissions
RemoveStudentBegin(c, I) ==
  \E s \in I.students :
    LET fs == find_student(db, s)
        call == Call("remove_student", 0, s, 0, 0)
    IN
    /\ pc[c] = "idle"
    /\ UNCHANGED db
    /\ IF fs = {}
         THEN /\ pc' = [pc EXCEPT ![c] = "done"]
              /\ loc' = [loc EXCEPT ![c] =
                           [call EXCEPT !.status = "MissingEntry"]]
         ELSE \E q \in Orders({x \in db.submitted_assignment :
                                 x.student_id = The(fs).id}) :
                /\ pc' = [pc EXCEPT ![c] = "loop"]
                /\ loc' = [loc EXCEPT ![c] =
                             [call EXCEPT !.target = The(fs).id,
                                          !.pending = q]]

\* assignment = self.find_assignment(name); assignment.submissions
RemoveAssignmentBegin(c, I) ==
  \E a \in I.assignments :
    LET fa == find_assignment(db, a)
        call == Call("remove_assignment", a, 0, 0, 0)
    IN
    /\ pc[c] = "idle"
    /\ UNCHANGED db
    /\ IF fa = {}
         THEN /\ pc' = [pc EXCEPT ![c] = "done"]
              /\ loc' = [loc EXCEPT ![c] =
                           [call EXCEPT !.status = "MissingEntry"]]
         ELSE \E q \in Orders({x \in db.submitted_assignment :
                                 x.assignment_id = The(fa).id}) :
                /\ pc' = [pc EXCEPT ![c] = "loop"]
                /\ loc' = [loc EXCEPT ![c] =
                             [call EXCEPT !.target = The(fa).id,
                                          !.pending = q]]

\* A turn reads its argument: args is what the read gives.
TurnArgs(c, args) ==
  /\ UNCHANGED db
  /\ IF args.status # "ok" THEN Ends(c, args.status)
     ELSE /\ pc' = [pc EXCEPT ![c] = "call"]
          /\ loc' = [loc EXCEPT ![c].arg = args.arg]

RemoveStudentArgs(c) ==
  /\ pc[c] = "loop"
  /\ loc[c].op = "remove_student"
  /\ loc[c].pending # <<>>
  /\ TurnArgs(c, remove_student_args(db, Head(loc[c].pending),
                                     loc[c].expired))

RemoveAssignmentArgs(c) ==
  /\ pc[c] = "loop"
  /\ loc[c].op = "remove_assignment"
  /\ loc[c].pending # <<>>
  /\ TurnArgs(c, remove_assignment_args(db, Head(loc[c].pending),
                                        loc[c].expired))

\* A turn calls remove_submission: r is what the call gives.
TurnCall(c, r) ==
  /\ db' = r.db
  /\ IF r.status # "ok" THEN Ends(c, r.status)
     ELSE /\ pc' = [pc EXCEPT ![c] = "loop"]
          /\ loc' = [loc EXCEPT
                       ![c].pending = Tail(@),
                       ![c].expired = TRUE,
                       ![c].removed = @ \cup {Head(loc[c].pending).id}]

RemoveStudentCall(c) ==
  /\ pc[c] = "call"
  /\ loc[c].op = "remove_student"
  /\ TurnCall(c, remove_submission(db, loc[c].arg, loc[c].s))

RemoveAssignmentCall(c) ==
  /\ pc[c] = "call"
  /\ loc[c].op = "remove_assignment"
  /\ TurnCall(c, remove_submission(db, loc[c].a, loc[c].arg))

RemoveStudentEnd(c) ==
  LET r == remove_student_end(db, loc[c].target, loc[c].expired) IN
  /\ pc[c] = "loop"
  /\ loc[c].op = "remove_student"
  /\ loc[c].pending = <<>>
  /\ db' = r.db
  /\ Ends(c, r.status)

RemoveAssignmentEnd(c) ==
  LET r == remove_assignment_end(db, loc[c].target, loc[c].expired) IN
  /\ pc[c] = "loop"
  /\ loc[c].op = "remove_assignment"
  /\ loc[c].pending = <<>>
  /\ db' = r.db
  /\ Ends(c, r.status)

NextConc ==
  \E c \in Callers :
    \/ SetUp(c)
    \/ RemoveStudentBegin(c, Structure)
    \/ RemoveStudentArgs(c)
    \/ RemoveStudentCall(c)
    \/ RemoveStudentEnd(c)
    \/ RemoveAssignmentBegin(c, Structure)
    \/ RemoveAssignmentArgs(c)
    \/ RemoveAssignmentCall(c)
    \/ RemoveAssignmentEnd(c)
    \/ RemoveSubmission(c, Structure)
    \/ Return(c)

SpecConc == InitConc /\ [][NextConc]_vars


---------------------------------------------------------------------------
(* The lookups as calls (SpecFind): a caller builds assignments with       *)
(* same-named notebooks and cells and submissions of them, and looks rows  *)
(* up by their natural keys.  A lookup ends with the id of the row found   *)
(* in loc[c].target, or with the exception of .one().                      *)

MaxNotebookRows == 2
MaxSolutionCellRows == 1

Lookup ==
  [Structure EXCEPT !.notebooks = 1..MaxNotebookRows, !.times = {Absent}]

\* rows: what the query of the lookup selects.
Found(c, call, rows) ==
  Finish(c,
         [call EXCEPT !.target = IF Cardinality(rows) = 1
                                   THEN The(rows).id ELSE NoId],
         Outcome(db, IF rows = {} THEN "MissingEntry"
                     ELSE IF Cardinality(rows) = 1 THEN "ok"
                     ELSE "MultipleResultsFound"))

FindStudent(c, I) ==
  \E s \in I.students :
    Found(c, Call("find_student", 0, s, 0, 0), find_student(db, s))

FindAssignment(c, I) ==
  \E a \in I.assignments :
    Found(c, Call("find_assignment", a, 0, 0, 0), find_assignment(db, a))

FindNotebook(c, I) ==
  \E a \in I.assignments, n \in I.notebooks :
    Found(c, Call("find_notebook", a, 0, n, 0), find_notebook(db, n, a))

FindGradeCell(c, I) ==
  \E a \in I.assignments, n \in I.notebooks, g \in I.grade_cells :
    Found(c, Call("find_grade_cell", a, 0, n, g),
          find_grade_cell(db, g, n, a))

FindSolutionCell(c, I) ==
  \E a \in I.assignments, n \in I.notebooks, g \in I.solution_cells :
    Found(c, Call("find_solution_cell", a, 0, n, g),
          find_solution_cell(db, g, n, a))

FindSubmission(c, I) ==
  \E a \in I.assignments, s \in I.students :
    Found(c, Call("find_submission", a, s, 0, 0), find_submission(db, a, s))

FindSubmissionNotebook(c, I) ==
  \E a \in I.assignments, s \in I.students, n \in I.notebooks :
    Found(c, Call("find_submission_notebook", a, s, n, 0),
          find_submission_notebook(db, n, a, s))

FindGrade(c, I) ==
  \E a \in I.assignments, s \in I.students, n \in I.notebooks,
     g \in I.grade_cells :
    Found(c, Call("find_grade", a, s, n, g), find_grade(db, g, n, a, s))

FindComment(c, I) ==
  \E a \in I.assignments, s \in I.students, n \in I.notebooks,
     g \in I.solution_cells :
    Found(c, Call("find_comment", a, s, n, g), find_comment(db, g, n, a, s))

NextFind ==
  \E c \in {1} :
    \/ AddStudent(c, Lookup)
    \/ AddAssignment(c, Lookup)
    \/ AddNotebook(c, Lookup) /\ Cardinality(db.notebook) < MaxNotebookRows
    \/ AddGradeCell(c, Lookup)
    \/ /\ AddSolutionCell(c, Lookup)
       /\ Cardinality(db.solution_cell) < MaxSolutionCellRows
    \/ AddSubmission(c, Lookup)
    \/ FindStudent(c, Lookup)
    \/ FindAssignment(c, Lookup)
    \/ FindNotebook(c, Lookup)
    \/ FindGradeCell(c, Lookup)
    \/ FindSolutionCell(c, Lookup)
    \/ FindSubmission(c, Lookup)
    \/ FindSubmissionNotebook(c, Lookup)
    \/ FindGrade(c, Lookup)
    \/ FindComment(c, Lookup)
    \/ Return(c)

SpecFind == Init /\ [][NextFind]_vars

---------------------------------------------------------------------------
(* The session of a Gradebook across calls (SpecSession).  A commit whose  *)
(* flush fails leaves the transaction of the session inactive; rollback()  *)
(* starts the session afresh, and until it is called every use of the      *)
(* session raises InvalidRequestError.  The calls here may pass None for   *)
(* a column that is NOT NULL (max_score, cell_type), which fails the       *)
(* flush with IntegrityError.                                              *)

Session ==
  [Structure EXCEPT !.assignments = {1}, !.times = {Absent},
                    !.points = {Null, MaxPoints}, !.types = {"code", SqlNull}]

FinishInSession(c, call, r) ==
  /\ pc[c] = "idle"
  /\ loc[c].transaction = "active"
  /\ db' = r.db
  /\ pc' = [pc EXCEPT ![c] = "done"]
  /\ loc' = [loc EXCEPT ![c] = [call EXCEPT !.status = r.status,
                                            !.transaction = r.transaction]]

\* The add raises MissingEntry from find_notebook, or else InvalidEntry
\* after rollback(); on the update path the except clause calls rollback().
update_or_create_grade_cell_nullable(d, used, name, nb, a, max_score, ty) ==
  LET r == IF max_score # Null
             THEN update_or_create_grade_cell(d, used, name, nb, a,
                                              max_score, ty)
           ELSE IF find_grade_cell(d, name, nb, a) = {}
                   /\ find_notebook(d, nb, a) = {}
             THEN Outcome(d, "MissingEntry")
           ELSE Outcome(d, "InvalidEntry")
  IN  [db |-> r.db, status |-> r.status, transaction |-> "active"]

\* On the update path the except clause raises without rollback().
update_or_create_solution_cell_nullable(d, used, name, nb, a, cell_type) ==
  LET r == IF cell_type # SqlNull
             THEN update_or_create_solution_cell(d, used, name, nb, a)
           ELSE IF find_solution_cell(d, name, nb, a) = {}
                   /\ find_notebook(d, nb, a) = {}
             THEN Outcome(d, "MissingEntry")
           ELSE Outcome(d, "InvalidEntry")
  IN  [db |-> r.db, status |-> r.status,
       transaction |-> IF cell_type = SqlNull
                          /\ find_solution_cell(d, name, nb, a) # {}
                         THEN "inactive" ELSE "active"]

UpdateOrCreateGradeCellNullable(c, I) ==
  \E a \in I.assignments, n \in I.notebooks, g \in I.grade_cells,
     m \in I.points :
    /\ \/ Cardinality(db.grade_cell) < I.grade_cell_rows
       \/ find_grade_cell(db, g, n, a) # {}
    /\ FinishInSession(
         c, Call("update_or_create_grade_cell", a, 0, n, g),
         update_or_create_grade_cell_nullable(db, Used, g, n, a, m, "code"))

UpdateOrCreateSolutionCellNullable(c, I) ==
  \E a \in I.assignments, n \in I.notebooks, g \in I.solution_cells,
     t \in I.types :
    FinishInSession(
      c, Call("update_or_create_solution_cell", a, 0, n, g),
      update_or_create_solution_cell_nullable(db, Used, g, n, a, t))

\* A call on a session whose transaction is inactive.
CallInactive(c, I) ==
  \E s \in I.students, op \in {"add_student", "find_student"} :
    /\ pc[c] = "idle"
    /\ loc[c].transaction = "inactive"
    /\ pc' = [pc EXCEPT ![c] = "done"]
    /\ loc' = [loc EXCEPT
                ![c] = [Call(op, 0, s, 0, 0) EXCEPT
                          !.status = "InvalidRequestError",
                          !.transaction = "inactive"]]
    /\ UNCHANGED db

NextSession ==
  \E c \in {1} :
    \/ /\ loc[c].transaction = "active"
       /\ \/ AddStudent(c, Session)
          \/ AddAssignment(c, Session)
          \/ AddNotebook(c, Session)
          \/ AddSolutionCell(c, Session)
          \/ AddSubmission(c, Session)
          \/ RemoveSubmission(c, Session)
    \/ UpdateOrCreateGradeCellNullable(c, Session)
    \/ UpdateOrCreateSolutionCellNullable(c, Session)
    \/ CallInactive(c, Session)
    \/ Return(c)

SpecSession == Init /\ [][NextSession]_vars

---------------------------------------------------------------------------
(* Lateness read by a caller (SpecLate): total_seconds_late of a           *)
(* submission with the timestamp, the due date of its assignment and the   *)
(* extension in loc[c].arg; the value it returns is in loc[c].target.      *)

TotalSecondsLate(c) ==
  \E timestamp, duedate, extension \in {Null} \cup 0..MaxSeconds :
    LET r == SubmittedAssignment_total_seconds_late(timestamp, duedate,
                                                    extension)
    IN  Finish(c,
               [Call("total_seconds_late", 0, 0, 0, 0) EXCEPT
                  !.arg = <<timestamp, duedate, extension>>,
                  !.target = <<r.value>>],
               Outcome(db, r.status))

NextLate == \E c \in {1} : TotalSecondsLate(c) \/ Return(c)

SpecLate == Init /\ [][NextLate]_vars

---------------------------------------------------------------------------
(* Deferred aggregates read by one session while another writes            *)
(* (SpecCache).  An aggregate is a column_property with deferred=True: the *)
(* first access of the attribute runs its subquery and keeps the value in  *)
(* the object, and a later access returns what the object holds until the  *)
(* session expires the object (on its own commit or rollback).  Caller 1   *)
(* holds an entity: pc "loaded" after the first access, "done" after the   *)
(* second; loc[1].op names the aggregate, loc[1].target the entity and     *)
(* loc[1].arg the value the object holds.  Caller 2 is another Gradebook   *)
(* on the same database, whose calls commit.                               *)

Aggregates ==
  {"Assignment.num_submissions", "Assignment.max_score",
   "SubmittedAssignment.score"}

\* The subquery of the aggregate op for the row with the id, NULL when the
\* row is not in the store.
deferred(d, op, id) ==
  IF op = "Assignment.num_submissions"
    THEN scalar({Assignment_num_submissions(d, a) :
                   a \in {x \in d.assignment : x.id = id}}, Null)
  ELSE IF op = "Assignment.max_score"
    THEN scalar({Assignment_max_score(d, a) :
                   a \in {x \in d.assignment : x.id = id}}, Null)
  ELSE scalar({SubmittedAssignment_score(d, sa) :
                 sa \in {x \in d.submitted_assignment : x.id = id}}, Null)

LoadAggregate(c) ==
  \E op \in Aggregates :
    \E row \in IF op = "SubmittedAssignment.score"
                 THEN db.submitted_assignment ELSE db.assignment :
      /\ pc[c] = "idle"
      /\ pc' = [pc EXCEPT ![c] = "loaded"]
      /\ loc' = [loc EXCEPT
                  ![c] = [Call(op, 0, 0, 0, 0) EXCEPT
                            !.target = row.id,
                            !.arg = deferred(db, op, row.id)]]
      /\ UNCHANGED db

ReadAggregate(c) ==
  /\ pc[c] = "loaded"
  /\ pc' = [pc EXCEPT ![c] = "done"]
  /\ loc' = [loc EXCEPT ![c].status = "ok"]
  /\ UNCHANGED db

NextCache ==
  LET I == [Grading EXCEPT !.students = {1}, !.grade_cells = {1},
                           !.types = {"code"}, !.manual = {Null}]
  IN  \/ LoadAggregate(1)
      \/ ReadAggregate(1)
      \/ AddStudent(2, I)
      \/ AddAssignment(2, I)
      \/ AddNotebook(2, I)
      \/ UpdateOrCreateGradeCell(2, I)
      \/ AddSubmission(2, I)
      \/ RemoveSubmission(2, I)
      \/ SetAutoScore(2, I)
      \/ \E c \in Callers : Return(c)

SpecCache == Init /\ [][NextCache]_vars

---------------------------------------------------------------------------
(* Properties of the submission graph (Spec).                              *)

\* The step in which caller c's call of op ends with status.
Ended(c, op, status) ==
  /\ pc[c] = "idle"
  /\ pc'[c] = "done"
  /\ loc'[c].op = op
  /\ loc'[c].status = status

\* Caller c's call of op has ended with status and has not yet returned.
Done(c, op, status) ==
  /\ pc[c] = "done"
  /\ loc[c].op = op
  /\ loc[c].status = status

\* The rows of d that are not rows of the store, table by table.
Created(d) ==
  [t \in DOMAIN EmptyDb |-> d[t] \ db[t]]

\* The Grade rows of d for grade cell gc in submitted notebook sn.
GradesFor(d, gc, sn) ==
  {g \in d.grade : g.cell_id = gc.id /\ g.notebook_id = sn.id}

\* The Comment rows of d for solution cell sc in submitted notebook sn.
CommentsFor(d, sc, sn) ==
  {k \in d.comment : k.cell_id = sc.id /\ k.notebook_id = sn.id}

(* C1: in every reachable state, every SubmittedNotebook has exactly one   *)
(* Grade for every GradeCell of its template Notebook and exactly one      *)
(* Comment for every SolutionCell of it, also when a cell is added to a    *)
(* notebook that already has submissions.                                  *)
C1_OneGradePerCell ==
  \A sn \in db.submitted_notebook :
    /\ \A gc \in db.grade_cell :
         gc.notebook_id = sn.notebook_id =>
           Cardinality(GradesFor(db, gc, sn)) = 1
    /\ \A sc \in db.solution_cell :
         sc.notebook_id = sn.notebook_id =>
           Cardinality(CommentsFor(db, sc, sn)) = 1

(* C2: a successful add_submission(A, S) creates exactly one               *)
(* SubmittedAssignment for (A, S), exactly one SubmittedNotebook for every *)
(* Notebook of A, exactly one Grade with both scores unset for every       *)
(* GradeCell of each such Notebook, exactly one Comment with no text for   *)
(* every SolutionCell, and nothing else: no other row is created, changed  *)
(* or deleted.                                                             *)
C2_Graph(c) ==
  LET A == The(find_assignment(db, loc'[c].a))
      new == Created(db')
      nbs == {n \in db.notebook : n.assignment_id = A.id}
      sub == The(new.submitted_assignment)
      sns(n) == {x \in new.submitted_notebook :
                   x.notebook_id = n.id /\ x.assignment_id = sub.id}
  IN
  /\ \A t \in DOMAIN EmptyDb : db[t] \subseteq db'[t]
  /\ \A t \in {"assignment", "student", "notebook", "grade_cell",
               "solution_cell"} : new[t] = {}
  /\ Cardinality(new.submitted_assignment) = 1
  /\ sub.assignment_id = A.id
  /\ sub.student_id = <<loc'[c].s>>
  /\ \A n \in nbs : Cardinality(sns(n)) = 1
  /\ new.submitted_notebook = UNION {sns(n) : n \in nbs}
  /\ \A n \in nbs :
       LET sn == The(sns(n)) IN
       /\ \A gc \in {x \in db.grade_cell : x.notebook_id = n.id} :
            /\ Cardinality(GradesFor(new, gc, sn)) = 1
            /\ \A g \in GradesFor(new, gc, sn) :
                 g.auto_score = Null /\ g.manual_score = Null
       /\ \A sc \in {x \in db.solution_cell : x.notebook_id = n.id} :
            /\ Cardinality(CommentsFor(new, sc, sn)) = 1
            /\ \A k \in CommentsFor(new, sc, sn) : k.comment = Null
  /\ new.grade =
       UNION {GradesFor(new, gc, sn) :
                <<gc, sn>> \in {p \in db.grade_cell \X new.submitted_notebook :
                                  p[1].notebook_id = p[2].notebook_id}}
  /\ new.comment =
       UNION {CommentsFor(new, sc, sn) :
                <<sc, sn>> \in {p \in db.solution_cell
                                      \X new.submitted_notebook :
                                  p[1].notebook_id = p[2].notebook_id}}

C2_AddSubmissionMirrors ==
  [][\A c \in Callers : Ended(c, "add_submission", "ok") => C2_Graph(c)]_vars

\* add_submission has succeeded for an assignment that has a notebook with
\* a grade cell and a solution cell: the student's submission holds a Grade
\* and a Comment.
C2_Witness ==
  \E c \in Callers :
    /\ Done(c, "add_submission", "ok")
    /\ \E sub \in find_submission(db, loc[c].a, loc[c].s) :
         \E sn \in db.submitted_notebook :
           /\ sn.assignment_id = sub.id
           /\ \E g \in db.grade : g.notebook_id = sn.id
           /\ \E k \in db.comment : k.notebook_id = sn.id

(* C3: add_submission(A, S) for a pair that already has a submission ends  *)
(* with InvalidEntry and leaves the committed store as it was: no row is   *)
(* added and the scores and comments of the existing submission stay.      *)
C3_DuplicateSubmissionRejected ==
  [][\A c \in Callers :
       ( /\ pc[c] = "idle"
         /\ pc'[c] = "done"
         /\ loc'[c].op = "add_submission"
         /\ find_submission(db, loc'[c].a, loc'[c].s) # {} )
       => loc'[c].status = "InvalidEntry" /\ db' = db]_vars

\* add_submission has been refused for a pair whose submission holds a
\* score and a comment.
C3_Witness ==
  \E c \in Callers :
    /\ Done(c, "add_submission", "InvalidEntry")
    /\ \E sub \in find_submission(db, loc[c].a, loc[c].s) :
         \E sn \in db.submitted_notebook :
           /\ sn.assignment_id = sub.id
           /\ \E g \in db.grade :
                g.notebook_id = sn.id /\ g.auto_score # Null
           /\ \E k \in db.comment :
                k.notebook_id = sn.id /\ k.comment # Null

\* The ids of the rows of d that refer to the assignment with id aid,
\* directly or through the rows they refer to.
Under(d, aid) ==
  LET nbs == {n \in d.notebook : n.assignment_id = aid}
      gcs == {g \in d.grade_cell : g.notebook_id \in Ids(nbs)}
      scs == {g \in d.solution_cell : g.notebook_id \in Ids(nbs)}
      sas == {x \in d.submitted_assignment : x.assignment_id = aid}
      sns == {x \in d.submitted_notebook :
                x.assignment_id \in Ids(sas) \/ x.notebook_id \in Ids(nbs)}
      grs == {g \in d.grade :
                g.notebook_id \in Ids(sns) \/ g.cell_id \in Ids(gcs)}
      cms == {k \in d.comment :
                k.notebook_id \in Ids(sns) \/ k.cell_id \in Ids(scs)}
  IN  Ids(nbs) \cup Ids(gcs) \cup Ids(scs) \cup Ids(sas) \cup Ids(sns)
        \cup Ids(grs) \cup Ids(cms)

\* The ids of the rows of d.
RowIds(d) == UNION {Ids(d[t]) : t \in DOMAIN EmptyDb}

(* C4: after a successful remove_assignment(A), A is gone, none of the     *)
(* rows that referred to A directly or transitively remains, and no        *)
(* remaining row refers to A.                                              *)
C4_CascadeComplete ==
  [][\A c \in Callers :
       Ended(c, "remove_assignment", "ok") =>
         LET A == The(find_assignment(db, loc'[c].a)) IN
         /\ find_assignment(db', loc'[c].a) = {}
         /\ A.id \notin RowIds(db')
         /\ RowIds(db') \cap Under(db, A.id) = {}
         /\ Under(db', A.id) = {}]_vars

\* remove_assignment has succeeded for an assignment that had two
\* submissions, and the students are still there.
C4_Witness ==
  \E c \in Callers :
    /\ Done(c, "remove_assignment", "ok")
    /\ Cardinality(loc[c].removed) = 2
    /\ Cardinality(db.student) = 2

---------------------------------------------------------------------------
(* Properties of the cascades under two sessions (SpecConc).               *)

Cascades == {"remove_assignment", "remove_student"}

(* C5: remove_assignment and remove_student are all-or-nothing: when the   *)
(* call ends with InvalidEntry or MissingEntry, it has removed no          *)
(* submission of its assignment or student from the committed store.       *)
C5_AllOrNothing ==
  \A c \in Callers :
    ( /\ pc[c] = "done"
      /\ loc[c].op \in Cascades
      /\ loc[c].status \in {"InvalidEntry", "MissingEntry"} )
    => loc[c].removed = {}

(* C6: while a caller runs remove_assignment(A) or remove_student(S), the  *)
(* committed store, which is what any other reader sees, never shows part  *)
(* of the cascade: some submission of A (or S) removed by the call while   *)
(* another submission of it, or the row of A (or S) itself, is still there.*)
C6_NoIntermediateState ==
  \A c \in Callers :
    ( /\ pc[c] \in {"loop", "call"}
      /\ loc[c].op \in Cascades )
    => ~ /\ loc[c].removed # {}
         /\ \/ loc[c].target \in Ids(db.assignment) \cup Ids(db.student)
            \/ \E i \in DOMAIN loc[c].pending :
                 loc[c].pending[i].id \in Ids(db.submitted_assignment)

---------------------------------------------------------------------------
(* Properties of the derived scores and flags (SpecGrade).                 *)

\* The Grade rows under a submitted notebook, a submitted assignment and a
\* notebook.
GradesOfSubmittedNotebook(sn) == {g \in db.grade : g.notebook_id = sn.id}

GradesOfSubmittedAssignment(sa) ==
  UNION {GradesOfSubmittedNotebook(sn) :
           sn \in {x \in db.submitted_notebook : x.assignment_id = sa.id}}

GradesOfNotebook(nb) ==
  UNION {GradesOfSubmittedNotebook(sn) :
           sn \in {x \in db.submitted_notebook : x.notebook_id = nb.id}}

Unset(g) == g.auto_score = Null /\ g.manual_score = Null

(* C7: the score of every Grade is its manual_score when that is set (0    *)
(* included), else its auto_score when that is set, else 0.                *)
C7_GradeScore ==
  \A g \in db.grade :
    /\ g.manual_score # Null => Grade_score(g) = g.manual_score
    /\ g.manual_score = Null /\ g.auto_score # Null
         => Grade_score(g) = g.auto_score
    /\ Unset(g) => Grade_score(g) = 0

\* A Grade whose manual score of 0 overrides a higher auto score.
C7_Witness ==
  \E g \in db.grade : g.manual_score = 0 /\ g.auto_score = MaxGrade

(* C8: needs_manual_grade of a Grade is true iff both its scores are       *)
(* unset; needs_manual_grade of a SubmittedNotebook, SubmittedAssignment   *)
(* or Notebook is true iff some Grade under it has both scores unset, so   *)
(* it is false with no Grade under it or with every Grade scored.          *)
C8_NeedsManualGrade ==
  /\ \A g \in db.grade : Grade_needs_manual_grade(g) <=> Unset(g)
  /\ \A sn \in db.submitted_notebook :
       SubmittedNotebook_needs_manual_grade(db, sn)
         <=> {g \in GradesOfSubmittedNotebook(sn) : Unset(g)} # {}
  /\ \A sa \in db.submitted_assignment :
       SubmittedAssignment_needs_manual_grade(db, sa)
         <=> {g \in GradesOfSubmittedAssignment(sa) : Unset(g)} # {}
  /\ \A nb \in db.notebook :
       Notebook_needs_manual_grade(db, nb)
         <=> {g \in GradesOfNotebook(nb) : Unset(g)} # {}

\* A notebook that needs manual grading for one of its two submissions:
\* the other has a Grade with only a manual score and needs none.
C8_Witness ==
  \E nb \in db.notebook :
    /\ Notebook_needs_manual_grade(db, nb)
    /\ \E sn \in db.submitted_notebook :
         /\ sn.notebook_id = nb.id
         /\ ~SubmittedNotebook_needs_manual_grade(db, sn)
         /\ \E g \in GradesOfSubmittedNotebook(sn) :
              g.auto_score = Null /\ g.manual_score # Null

\* The Grade is for a code cell and its auto score, which is set, is below
\* the maximum of the cell.
BelowMaximum(g) ==
  \E gc \in db.grade_cell :
    /\ gc.id = g.cell_id
    /\ gc.cell_type = "code"
    /\ g.auto_score # Null
    /\ g.auto_score < gc.max_score

(* C9: failed_tests of a Grade is true iff its GradeCell is code-typed and *)
(* its auto_score is set and strictly below the cell's max_score, whatever *)
(* its manual_score; failed_tests of a SubmittedNotebook is true iff it is *)
(* true of one of its Grades.                                              *)
C9_FailedTests ==
  /\ \A g \in db.grade :
       Grade_failed_tests(db, g) = SqlTrue <=> BelowMaximum(g)
  /\ \A sn \in db.submitted_notebook :
       SubmittedNotebook_failed_tests(db, sn)
         <=> \E g \in GradesOfSubmittedNotebook(sn) : BelowMaximum(g)

\* A Grade that failed its tests although its manual score is the maximum,
\* beside a Grade for a code cell that has no auto score and did not fail.
C9_Witness ==
  /\ \E g \in db.grade :
       /\ Grade_failed_tests(db, g) = SqlTrue
       /\ g.manual_score = Grade_max_score(db, g)
  /\ \E g \in db.grade :
       /\ Grade_cell_type(db, g) = "code"
       /\ g.auto_score = Null
       /\ Grade_failed_tests(db, g) # SqlTrue

\* The sum of max_score over the grade cells C.
RECURSIVE Points(_)
Points(C) ==
  IF C = {} THEN 0
  ELSE LET c == CHOOSE x \in C : TRUE IN c.max_score + Points(C \ {c})

Typed(C, cell_type) == {c \in C : c.cell_type = cell_type}

\* The grade cells of the notebook with id nbid, and of the notebooks of
\* the assignment with id aid.
CellsOfNotebook(nbid) == {c \in db.grade_cell : c.notebook_id = nbid}

CellsOfAssignment(aid) ==
  UNION {CellsOfNotebook(nb.id) :
           nb \in {x \in db.notebook : x.assignment_id = aid}}

\* total, code and written are the sums over the cells C, over its code
\* cells and over its written cells: none is NULL, and code + written =
\* total.
Sums(total, code, written, C) ==
  /\ total = Points(C)
  /\ code = Points(Typed(C, "code"))
  /\ written = Points(Typed(C, "markdown"))
  /\ Null \notin {total, code, written}
  /\ code + written = total

(* C10: for every Notebook, Assignment, SubmittedNotebook and              *)
(* SubmittedAssignment, max_score is the sum of max_score over the         *)
(* GradeCells of the underlying notebook(s), max_code_score the sum over   *)
(* the code cells and max_written_score the sum over the written cells,    *)
(* each 0 and never NULL when no cell matches; so max_code_score +         *)
(* max_written_score = max_score.                                          *)
C10_MaxScores ==
  /\ \A nb \in db.notebook :
       Sums(Notebook_max_score(db, nb), Notebook_max_code_score(db, nb),
            Notebook_max_written_score(db, nb), CellsOfNotebook(nb.id))
  /\ \A a \in db.assignment :
       Sums(Assignment_max_score(db, a), Assignment_max_code_score(db, a),
            Assignment_max_written_score(db, a), CellsOfAssignment(a.id))
  /\ \A sn \in db.submitted_notebook :
       Sums(SubmittedNotebook_max_score(db, sn),
            SubmittedNotebook_max_code_score(db, sn),
            SubmittedNotebook_max_written_score(db, sn),
            CellsOfNotebook(sn.notebook_id))
  /\ \A sa \in db.submitted_assignment :
       Sums(SubmittedAssignment_max_score(db, sa),
            SubmittedAssignment_max_code_score(db, sa),
            SubmittedAssignment_max_written_score(db, sa),
            CellsOfAssignment(sa.assignment_id))

\* A submission of an assignment whose notebook has a code cell and a
\* written cell of different points.
C10_Witness ==
  \E sa \in db.submitted_assignment :
    /\ SubmittedAssignment_max_code_score(db, sa) = 1
    /\ SubmittedAssignment_max_written_score(db, sa) = MaxPoints
    /\ \E sn \in db.submitted_notebook :
         /\ sn.assignment_id = sa.id
         /\ SubmittedNotebook_max_score(db, sn) = 1 + MaxPoints

\* The sum of score over the grades G.
RECURSIVE Marks(_)
Marks(G) ==
  IF G = {} THEN 0
  ELSE LET g == CHOOSE x \in G : TRUE IN Grade_score(g) + Marks(G \ {g})

\* The grades of G for a grade cell of the given type.
TypedGrades(G, cell_type) ==
  {g \in G : \E gc \in db.grade_cell :
                gc.id = g.cell_id /\ gc.cell_type = cell_type}

GradesOfStudent(st) ==
  UNION {GradesOfSubmittedAssignment(sa) :
           sa \in {x \in db.submitted_assignment : x.student_id = st.id}}

\* The sum of the scores of the submitted notebooks of sa.
RECURSIVE NotebookScores(_)
NotebookScores(N) ==
  IF N = {} THEN 0
  ELSE LET sn == CHOOSE x \in N : TRUE
       IN  SubmittedNotebook_score(db, sn) + NotebookScores(N \ {sn})

(* C11: score of a SubmittedNotebook, SubmittedAssignment and Student is   *)
(* the sum of Grade.score over the Grades beneath it; code_score and       *)
(* written_score are that sum over the Grades of code and of written       *)
(* cells; each is 0 and never NULL when no Grade matches; code_score +     *)
(* written_score = score; and the score of a SubmittedAssignment is the    *)
(* sum of the scores of its SubmittedNotebooks.                            *)
C11_Scores ==
  /\ \A sn \in db.submitted_notebook :
       LET G == GradesOfSubmittedNotebook(sn) IN
       /\ SubmittedNotebook_score(db, sn) = Marks(G)
       /\ SubmittedNotebook_code_score(db, sn) = Marks(TypedGrades(G, "code"))
       /\ SubmittedNotebook_written_score(db, sn)
            = Marks(TypedGrades(G, "markdown"))
       /\ SubmittedNotebook_code_score(db, sn)
            + SubmittedNotebook_written_score(db, sn)
            = SubmittedNotebook_score(db, sn)
  /\ \A sa \in db.submitted_assignment :
       LET G == GradesOfSubmittedAssignment(sa) IN
       /\ SubmittedAssignment_score(db, sa) = Marks(G)
       /\ SubmittedAssignment_code_score(db, sa)
            = Marks(TypedGrades(G, "code"))
       /\ SubmittedAssignment_written_score(db, sa)
            = Marks(TypedGrades(G, "markdown"))
       /\ SubmittedAssignment_code_score(db, sa)
            + SubmittedAssignment_written_score(db, sa)
            = SubmittedAssignment_score(db, sa)
       /\ SubmittedAssignment_score(db, sa)
            = NotebookScores({x \in db.submitted_notebook :
                                x.assignment_id = sa.id})
  /\ \A st \in db.student : Student_score(db, st) = Marks(GradesOfStudent(st))

\* A submission with a scored code cell and a scored written cell, beside
\* a student without a submission, whose score is 0.
C11_Witness ==
  /\ \E sa \in db.submitted_assignment :
       /\ SubmittedAssignment_code_score(db, sa) = MaxGrade
       /\ SubmittedAssignment_written_score(db, sa) = MaxGrade
       /\ SubmittedAssignment_score(db, sa) = MaxGrade + MaxGrade
  /\ \E st \in db.student :
       /\ GradesOfStudent(st) = {}
       /\ Student_score(db, st) = 0

---------------------------------------------------------------------------
(* Properties of the calls of the facade on every store (Spec).            *)

\* No caller is inside a call: the store is one a call may start from.
Quiet == \A c \in Callers : pc[c] = "idle"

\* The ids a new row may not take in the store d.
UsedIn(d) == DbIds(d) \cup HeldIds

\* r1 and r2 are what a call and the same call made again gave, and found
\* is what the lookup of the identity gives after them: the second call
\* left the store of the first, and when the first succeeded so did the
\* second and there is one row of that identity.
Idempotent(r1, r2, found) ==
  /\ r2.db = r1.db
  /\ r1.status = "ok" => r2.status = "ok" /\ Cardinality(found) = 1

(* C12: for every kind of entity and every store, update_or_create_X       *)
(* called twice in a row with the same identity and the same attributes    *)
(* leaves the store of the first call, and, when the first call succeeds,  *)
(* exactly one row of that identity.                                       *)
C12_Idempotent ==
  Quiet =>
    /\ \A s \in 1..NumStudents :
         LET r1 == update_or_create_student(db, s)
             r2 == update_or_create_student(r1.db, s)
         IN  Idempotent(r1, r2, find_student(r2.db, s))
    /\ \A a \in 1..NumAssignments :
         LET r1 == update_or_create_assignment(db, UsedIn(db), a)
             r2 == update_or_create_assignment(r1.db, UsedIn(r1.db), a)
         IN  Idempotent(r1, r2, find_assignment(r2.db, a))
    /\ \A a \in 1..NumAssignments, n \in 1..NumNotebooks :
         LET r1 == update_or_create_notebook(db, UsedIn(db), n, a)
             r2 == update_or_create_notebook(r1.db, UsedIn(r1.db), n, a)
         IN  Idempotent(r1, r2, find_notebook(r2.db, n, a))
    /\ \A a \in 1..NumAssignments, n \in 1..NumNotebooks,
          g \in 1..NumGradeCells, m \in 1..MaxPoints, t \in CellTypes :
         LET r1 == update_or_create_grade_cell(db, UsedIn(db), g, n, a, m, t)
             r2 == update_or_create_grade_cell(r1.db, UsedIn(r1.db),
                                               g, n, a, m, t)
         IN  Idempotent(r1, r2, find_grade_cell(r2.db, g, n, a))
    /\ \A a \in 1..NumAssignments, n \in 1..NumNotebooks,
          g \in 1..NumSolutionCells :
         LET r1 == update_or_create_solution_cell(db, UsedIn(db), g, n, a)
             r2 == update_or_create_solution_cell(r1.db, UsedIn(r1.db),
                                                  g, n, a)
         IN  Idempotent(r1, r2, find_solution_cell(r2.db, g, n, a))
    /\ \A a \in 1..NumAssignments, s \in 1..NumStudents,
          t \in {Absent} \cup 1..MaxTime :
         LET r1 == update_or_create_submission(db, UsedIn(db), a, s, t)
             r2 == update_or_create_submission(r1.db, UsedIn(r1.db), a, s, t)
         IN  Idempotent(r1, r2, find_submission(r2.db, a, s))

\* update_or_create_submission has set the timestamp of a submission that
\* holds a score, and the same call again would find that submission.
C12_Witness ==
  \E c \in Callers :
    /\ Done(c, "update_or_create_submission", "ok")
    /\ \E sub \in find_submission(db, loc[c].a, loc[c].s) :
         /\ sub.timestamp # Null
         /\ \E g \in GradesOfSubmittedAssignment(sub) : g.auto_score # Null
---------------------------------------------------------------------------
(* Properties of the lookups (SpecFind).                                   *)

\* The name of the row of rows that has the id, Null when there is none.
NameAt(rows, id) ==
  IF \E r \in rows : r.id = id
    THEN (CHOOSE r \in rows : r.id = id).name ELSE Null

\* The natural-key chain of a row, read upwards through its parents.
ChainOfNotebook(d, id) ==
  IF \E n \in d.notebook : n.id = id
    THEN LET n == CHOOSE n \in d.notebook : n.id = id
         IN  <<n.name, NameAt(d.assignment, n.assignment_id)>>
    ELSE <<Null, Null>>

ChainOfCell(d, cells, id) ==
  IF \E c \in cells : c.id = id
    THEN LET c == CHOOSE c \in cells : c.id = id
         IN  <<c.name>> \o ChainOfNotebook(d, c.notebook_id)
    ELSE <<Null, Null, Null>>

ChainOfSubmission(d, id) ==
  IF \E s \in d.submitted_assignment : s.id = id
    THEN LET s == CHOOSE s \in d.submitted_assignment : s.id = id
         IN  <<NameAt(d.assignment, s.assignment_id),
               IF \E t \in d.student : t.id = s.student_id
                 THEN s.student_id ELSE NoId>>
    ELSE <<Null, NoId>>

ChainOfSubmittedNotebook(d, id) ==
  IF \E sn \in d.submitted_notebook : sn.id = id
    THEN LET sn == CHOOSE sn \in d.submitted_notebook : sn.id = id
         IN  <<NameAt(d.notebook, sn.notebook_id)>>
             \o ChainOfSubmission(d, sn.assignment_id)
    ELSE <<Null, Null, NoId>>

\* A row under a submitted notebook (a grade or a comment) for a cell of
\* cells: the cell's own chain and the chain of the submission it is in.
ChainOfMark(d, cells, k) ==
  <<ChainOfCell(d, cells, k.cell_id),
    ChainOfSubmittedNotebook(d, k.notebook_id)>>

\* Caller c's lookup op, when it ends, has left the store alone, has raised
\* MissingEntry when no row is in matching, and has otherwise returned the
\* one row of matching.
Looked(c, op, matching) ==
  \A status \in {"ok", "MissingEntry", "MultipleResultsFound", "InvalidEntry"} :
    Ended(c, op, status) =>
      /\ db' = db
      /\ status = "MissingEntry" <=> matching = {}
      /\ matching # {} =>
           /\ status = "ok"
           /\ matching = {r \in matching : r.id = loc'[c].target}
      /\ matching = {} => loc'[c].target = NoId

\* C13: each find_X returns the one row whose whole natural-key chain,
\* read upwards through its parents, is the one asked for (a cell of the
\* same name in another notebook or assignment is never returned), raises
\* MissingEntry exactly when there is no such row, and leaves the store as
\* it was.
C13_FindByKeyChain ==
  [][\A c \in {1} :
       LET a == loc'[c].a
           s == loc'[c].s
           n == loc'[c].n
           g == loc'[c].g
       IN
       /\ Looked(c, "find_student", {r \in db.student : r.id = <<s>>})
       /\ Looked(c, "find_assignment", {r \in db.assignment : r.name = a})
       /\ Looked(c, "find_notebook",
                 {r \in db.notebook : ChainOfNotebook(db, r.id) = <<n, a>>})
       /\ Looked(c, "find_grade_cell",
                 {r \in db.grade_cell :
                    ChainOfCell(db, db.grade_cell, r.id) = <<g, n, a>>})
       /\ Looked(c, "find_solution_cell",
                 {r \in db.solution_cell :
                    ChainOfCell(db, db.solution_cell, r.id) = <<g, n, a>>})
       /\ Looked(c, "find_submission",
                 {r \in db.submitted_assignment :
                    ChainOfSubmission(db, r.id) = <<a, <<s>> >>})
       /\ Looked(c, "find_submission_notebook",
                 {r \in db.submitted_notebook :
                    ChainOfSubmittedNotebook(db, r.id) = <<n, a, <<s>> >>})
       /\ Looked(c, "find_grade",
                 {r \in db.grade :
                    ChainOfMark(db, db.grade_cell, r)
                      = << <<g, n, a>>, <<n, a, <<s>> >> >>})
       /\ Looked(c, "find_comment",
                 {r \in db.comment :
                    ChainOfMark(db, db.solution_cell, r)
                      = << <<g, n, a>>, <<n, a, <<s>> >> >>})
    ]_vars

\* find_grade_cell has returned a cell while a cell of the same name is in
\* a notebook of the same name of another assignment, and the store holds a
\* grade for each of the two.
C13_Witness ==
  /\ Done(1, "find_grade_cell", "ok")
  /\ \E x, y \in db.grade_cell :
       /\ x.id = loc[1].target
       /\ y.id # x.id
       /\ y.name = x.name
       /\ NameAt(db.notebook, y.notebook_id)
            = NameAt(db.notebook, x.notebook_id)
       /\ \E p, q \in db.grade : p.cell_id = x.id /\ q.cell_id = y.id
---------------------------------------------------------------------------
(* Properties of the add_* methods (Spec).                                 *)

\* r is what an add into table t gave in store d, taken the rows of d that
\* have the natural key of the call in its scope, made the rows of r.db
\* that have that key and the attributes of the call: the call raises
\* InvalidEntry exactly when the key is taken, a call that raises leaves
\* every row as it was, and a call that succeeds has committed one new row,
\* the one it was asked for, next to all the rows there were.
Added(d, r, t, taken, made) ==
  /\ r.status = "InvalidEntry" <=> taken # {}
  /\ r.status # "ok" => r.db = d
  /\ r.status = "ok" =>
       /\ \A u \in DOMAIN EmptyDb \ {t} : r.db[u] = d[u]
       /\ d[t] \subseteq r.db[t]
       /\ r.db[t] \ d[t] = made
       /\ Cardinality(made) = 1

(* C14: add_student, add_assignment, add_notebook, add_grade_cell and      *)
(* add_solution_cell fail with InvalidEntry when the natural key is taken  *)
(* in its scope and then change no row (the row there keeps its id and     *)
(* its attributes, whatever the attributes of the call, and no row is      *)
(* added); a successful add is in the committed store when the call ends.  *)
C14_AddRejectsDuplicates ==
  [][\A c \in {1} :
       pc[c] = "idle" /\ pc'[c] = "done" =>
         LET r == Outcome(db', loc'[c].status)
             op == loc'[c].op
             a == loc'[c].a
             s == loc'[c].s
             n == loc'[c].n
             g == loc'[c].g
         IN
         /\ op = "add_student" =>
              Added(db, r, "student", find_student(db, s),
                    find_student(db', s))
         /\ op = "add_assignment" =>
              Added(db, r, "assignment", find_assignment(db, a),
                    find_assignment(db', a))
         /\ op = "add_notebook" =>
              Added(db, r, "notebook", find_notebook(db, n, a),
                    find_notebook(db', n, a))
         /\ op = "add_solution_cell" =>
              Added(db, r, "solution_cell", find_solution_cell(db, g, n, a),
                    find_solution_cell(db', g, n, a))
         /\ op = "add_grade_cell" =>
              /\ Added(db, r, "grade_cell", find_grade_cell(db, g, n, a),
                       find_grade_cell(db', g, n, a))
              \* and so for every max_score and cell_type the call may have
              /\ \A m \in 1..MaxPoints, t \in CellTypes :
                   LET q == add_grade_cell(db, Used, g, n, a, m, t) IN
                   Added(db, q, "grade_cell", find_grade_cell(db, g, n, a),
                         {x \in find_grade_cell(q.db, g, n, a) :
                            x.max_score = m /\ x.cell_type = t})
    ]_vars

\* add_grade_cell has been rejected for a cell that has a grade, while the
\* notebook of the same name in the other assignment has no such cell.
C14_Witness ==
  /\ Done(1, "add_grade_cell", "InvalidEntry")
  /\ \E x \in find_grade_cell(db, loc[1].g, loc[1].n, loc[1].a) :
       \E p \in db.grade : p.cell_id = x.id
  /\ \E b \in 1..NumAssignments :
       /\ find_notebook(db, loc[1].n, b) # {}
       /\ find_grade_cell(db, loc[1].g, loc[1].n, b) = {}
---------------------------------------------------------------------------
(* Properties of the session (SpecSession).                                *)

(* C15: whenever a mutation raises InvalidEntry, the transaction has been  *)
(* rolled back before the error is raised (the session is ready for the    *)
(* next call with nothing pending) and the committed store is the store    *)
(* before the call.                                                        *)
C15_RolledBackOnInvalidEntry ==
  [][\A c \in {1} :
       pc[c] = "idle" /\ pc'[c] = "done" /\ loc'[c].status = "InvalidEntry" =>
         /\ db' = db
         /\ loc'[c].transaction = "active"
    ]_vars
---------------------------------------------------------------------------
(* Properties of the reports (SpecGrade).                                  *)

\* What Student.to_dict gives of the scores of student st.
StudentDict(d, st) ==
  [id |-> st.id, score |-> Student_score(d, st),
   max_score |-> Student_max_score(d, st)]

(* C16: student_dicts() returns one dictionary per student, students       *)
(* without submissions and gradebooks without grade cells included, with   *)
(* the score and the max_score of Student.score and Student.max_score.     *)
C16_StudentDicts ==
  student_dicts(db) = {StudentDict(db, st) : st \in db.student}
\* What SubmittedNotebook.to_dict gives of the scores of sn.
SubmittedNotebookDict(d, sn) ==
  [id |-> sn.id,
   score |-> SubmittedNotebook_score(d, sn),
   max_score |-> SubmittedNotebook_max_score(d, sn),
   code_score |-> SubmittedNotebook_code_score(d, sn),
   max_code_score |-> SubmittedNotebook_max_code_score(d, sn),
   written_score |-> SubmittedNotebook_written_score(d, sn),
   max_written_score |-> SubmittedNotebook_max_written_score(d, sn),
   needs_manual_grade |-> SubmittedNotebook_needs_manual_grade(d, sn),
   failed_tests |-> SubmittedNotebook_failed_tests(d, sn)]

(* C17: notebook_submission_dicts(N, A) returns one dictionary per         *)
(* submitted notebook of N in A, with the scores, the maximum scores and   *)
(* the flags of that submitted notebook, also when N has no grade cells,   *)
(* no code cells or no written cells, or has gained cells since the        *)
(* submission.                                                             *)
C17_NotebookSubmissionDicts ==
  \A a \in 1..NumAssignments, n \in 1..NumNotebooks :
    notebook_submission_dicts(db, n, a)
      = {SubmittedNotebookDict(db, sn) :
           sn \in {x \in db.submitted_notebook :
                     \E nb \in find_notebook(db, n, a) :
                       x.notebook_id = nb.id}}
\* r is what an average gave, P the <<row, score>> pairs of the submissions
\* it is over and n their number: r is the sum of the scores divided by n,
\* and 0.0 when there is no submission; it never raises.
Averages(r, P, n) ==
  /\ r.status = "ok"
  /\ n = Cardinality({p[1] : p \in P})
  /\ n = 0 => r.value = <<0, 1>>
  /\ n > 0 => r.value[2] > 0 /\ r.value[1] * n = Total(P) * r.value[2]

(* C18: for an assignment that exists, average_assignment_score is the sum *)
(* of the scores of its submissions divided by its num_submissions, and    *)
(* likewise the code and written averages and the averages over the        *)
(* submitted notebooks of a notebook; each is 0.0 when nothing has been    *)
(* submitted.                                                              *)
C18_Averages ==
  /\ \A a \in db.assignment :
       LET S == {sa \in db.submitted_assignment : sa.assignment_id = a.id}
           n == Assignment_num_submissions(db, a)
       IN
       /\ Averages(average_assignment_score(db, a.name),
                   {<<sa, SubmittedAssignment_score(db, sa)>> : sa \in S}, n)
       /\ Averages(average_assignment_typed_score(db, a.name, "code"),
                   {<<sa, SubmittedAssignment_code_score(db, sa)>> :
                      sa \in S}, n)
       /\ Averages(average_assignment_typed_score(db, a.name, "markdown"),
                   {<<sa, SubmittedAssignment_written_score(db, sa)>> :
                      sa \in S}, n)
  /\ \A nb \in db.notebook :
       \A a \in {x \in db.assignment : x.id = nb.assignment_id} :
         LET S == {sn \in db.submitted_notebook : sn.notebook_id = nb.id}
             n == Notebook_num_submissions(db, nb)
         IN
         /\ Averages(average_notebook_score(db, nb.name, a.name),
                     {<<sn, SubmittedNotebook_score(db, sn)>> : sn \in S}, n)
         /\ Averages(average_notebook_typed_score(db, nb.name, a.name,
                                                  "code"),
                     {<<sn, SubmittedNotebook_code_score(db, sn)>> :
                        sn \in S}, n)
         /\ Averages(average_notebook_typed_score(db, nb.name, a.name,
                                                  "markdown"),
                     {<<sn, SubmittedNotebook_written_score(db, sn)>> :
                        sn \in S}, n)

\* Two submissions of one notebook, one with the score MaxGrade for a
\* written cell and one with the score 0: the average is MaxGrade / 2, the
\* written average too, and the code average is 0 / 2.
C18_Witness ==
  \E nb \in db.notebook, a \in db.assignment :
    /\ nb.assignment_id = a.id
    /\ average_notebook_score(db, nb.name, a.name).value = <<MaxGrade, 2>>
    /\ average_assignment_typed_score(db, a.name, "markdown").value
         = <<MaxGrade, 2>>
    /\ average_notebook_typed_score(db, nb.name, a.name, "code").value
         = <<0, 2>>
---------------------------------------------------------------------------
(* Properties of the lateness (SpecLate).                                  *)

\* The seconds between the timestamp and the due date with its extension,
\* 0 when it is not late or when the timestamp or the due date is unset.
SecondsLate(timestamp, duedate, extension) ==
  IF timestamp = Null \/ duedate = Null THEN 0
  ELSE LET due == IF extension = Null THEN duedate ELSE duedate + extension
       IN  IF timestamp > due THEN timestamp - due ELSE 0

(* C20: for every timestamp, due date and extension, set or unset,         *)
(* total_seconds_late is max(0, timestamp - (due date + extension)), with  *)
(* the due date alone when there is no extension, and 0 when the timestamp *)
(* or the due date is unset, an extension without a due date included; it  *)
(* is never negative and it never raises.                                  *)
C20_TotalSecondsLate ==
  [][\A c \in {1} :
       pc[c] = "idle" /\ pc'[c] = "done"
         /\ loc'[c].op = "total_seconds_late" =>
           /\ loc'[c].status = "ok"
           /\ loc'[c].target
                = <<SecondsLate(loc'[c].arg[1], loc'[c].arg[2],
                                loc'[c].arg[3])>>
           /\ loc'[c].target[1] >= 0
    ]_vars
---------------------------------------------------------------------------
(* Properties of the aggregates across writes (SpecCache).                 *)

(* C19: an aggregate read after a committed write, by any caller and also  *)
(* by one that had read it on the same entity before the write, is the     *)
(* value computed from the rows now committed.                             *)
C19_NeverStale ==
  [][\A c \in Callers :
       \A op \in Aggregates :
         /\ pc[c] = "loaded"
         /\ pc'[c] = "done"
         /\ loc'[c].op = op
         /\ loc[c].target \in DbIds(db)
         => loc'[c].arg = deferred(db, op, loc[c].target)
    ]_vars
---------------------------------------------------------------------------
(* Frame of the removals (Spec).                                           *)

\* The rows of d beneath the submissions S: the submissions, their
\* submitted notebooks, and the grades and comments of those.
GraphOf(d, S) ==
  LET sns == {x \in d.submitted_notebook : x.assignment_id \in Ids(S)}
  IN  [EmptyDb EXCEPT
         !.submitted_assignment = S,
         !.submitted_notebook = sns,
         !.grade = {g \in d.grade : g.notebook_id \in Ids(sns)},
         !.comment = {k \in d.comment : k.notebook_id \in Ids(sns)}]

\* e is d without the rows of gone, every other row as it was.
Without(d, e, gone) ==
  \A t \in DOMAIN EmptyDb : e[t] = d[t] \ gone[t]

(* C21: a successful remove_student(S) takes away S and the submissions,   *)
(* submitted notebooks, grades and comments of S and leaves every other    *)
(* row (assignments, notebooks, cells, the other students and their        *)
(* submissions with their scores and comments) as it was; a successful     *)
(* remove_submission(A, S) takes away the graph of that submission alone.  *)
C21_RemovalFrame ==
  [][\A c \in {1} :
       /\ Ended(c, "remove_student", "ok") =>
            LET st == find_student(db, loc'[c].s)
                S == {x \in db.submitted_assignment :
                        x.student_id = <<loc'[c].s>>}
            IN  /\ st # {}
                /\ Without(db, db',
                           [GraphOf(db, S) EXCEPT !.student = st])
       /\ Ended(c, "remove_submission", "ok") =>
            LET S == {x \in db.submitted_assignment :
                        /\ x.student_id = <<loc'[c].s>>
                        /\ x.assignment_id
                             \in Ids(find_assignment(db, loc'[c].a))}
            IN  /\ Cardinality(S) = 1
                /\ Without(db, db', GraphOf(db, S))
    ]_vars

\* remove_student has succeeded for a student with a submission, and the
\* other student's submission of the same assignment, with a score and a
\* comment, is in the store.
C21_Witness ==
  /\ Done(1, "remove_student", "ok")
  /\ loc[1].removed # {}
  /\ \E sa \in db.submitted_assignment :
       /\ sa.student_id # <<loc[1].s>>
       /\ \E sn \in db.submitted_notebook, g \in db.grade, k \in db.comment :
            /\ sn.assignment_id = sa.id
            /\ g.notebook_id = sn.id /\ g.auto_score # Null
            /\ k.notebook_id = sn.id /\ k.comment # Null
---------------------------------------------------------------------------
(* Invariants of the store (Spec).                                         *)

\* No two rows of the table agree on all the given columns.
Unique(rows, columns) ==
  \A x, y \in rows : (\A f \in columns : x[f] = y[f]) => x = y

(* C22: in every reachable state no two assignments have one name, no two  *)
(* students one id, no two notebooks of an assignment one name, no two     *)
(* grade cells and no two solution cells of a notebook one name, and there *)
(* is at most one submitted assignment per assignment and student, one     *)
(* submitted notebook per notebook and submitted assignment, and one grade *)
(* and one comment per cell and submitted notebook.                        *)
C22_Uniqueness ==
  /\ Unique(db.assignment, {"name"})
  /\ Unique(db.student, {"id"})
  /\ Unique(db.notebook, {"name", "assignment_id"})
  /\ Unique(db.grade_cell, {"name", "notebook_id"})
  /\ Unique(db.solution_cell, {"name", "notebook_id"})
  /\ Unique(db.submitted_assignment, {"assignment_id", "student_id"})
  /\ Unique(db.submitted_notebook, {"notebook_id", "assignment_id"})
  /\ Unique(db.grade, {"cell_id", "notebook_id"})
  /\ Unique(db.comment, {"cell_id", "notebook_id"})
  /\ \A t \in DOMAIN EmptyDb : Unique(db[t], {"id"})

\* A second submission of an assignment by a student has been rejected in
\* a store where two assignments have a notebook of one name with a grade
\* cell of one name.
C22_Witness ==
  /\ Done(1, "add_submission", "InvalidEntry")
  /\ \E x, y \in db.grade_cell :
       /\ x.name = y.name
       /\ x.notebook_id # y.notebook_id
       /\ \E n, m \in db.notebook :
            n.id = x.notebook_id /\ m.id = y.notebook_id /\ n.name = m.name
\* Every row of rows refers by the column to a row of parents.
Refers(rows, column, parents) ==
  \A r \in rows : \E p \in parents : p.id = r[column]

(* C23: in every reachable state no row is orphaned: every grade and       *)
(* comment refers to a cell and a submitted notebook that exist, every     *)
(* submitted notebook to a submitted assignment and a notebook, every      *)
(* submitted assignment to an assignment and a student, every notebook to  *)
(* an assignment and every cell to a notebook.                             *)
C23_NoOrphans ==
  /\ Refers(db.grade, "cell_id", db.grade_cell)
  /\ Refers(db.grade, "notebook_id", db.submitted_notebook)
  /\ Refers(db.comment, "cell_id", db.solution_cell)
  /\ Refers(db.comment, "notebook_id", db.submitted_notebook)
  /\ Refers(db.submitted_notebook, "assignment_id", db.submitted_assignment)
  /\ Refers(db.submitted_notebook, "notebook_id", db.notebook)
  /\ Refers(db.submitted_assignment, "assignment_id", db.assignment)
  /\ Refers(db.submitted_assignment, "student_id", db.student)
  /\ Refers(db.notebook, "assignment_id", db.assignment)
  /\ Refers(db.grade_cell, "notebook_id", db.notebook)
  /\ Refers(db.solution_cell, "notebook_id", db.notebook)

\* A submission has been removed while another one, with a grade and a
\* comment, remains.
C23_Witness ==
  /\ Done(1, "remove_submission", "ok")
  /\ db.grade # {}
  /\ db.comment # {}

---------------------------------------------------------------------------
(* Mutations that name an entity that does not exist (Spec).               *)

\* The call op(a, s, n) names, in its scoping chain, an entity d lacks.
NamesAbsent(d, op, a, s, n) ==
  \/ /\ op = "add_submission"
     /\ find_assignment(d, a) = {} \/ find_student(d, s) = {}
  \/ /\ op = "add_notebook"
     /\ find_assignment(d, a) = {}
  \/ /\ op \in {"add_grade_cell", "add_solution_cell"}
     /\ find_assignment(d, a) = {} \/ find_notebook(d, n, a) = {}
  \/ /\ op = "remove_student"
     /\ find_student(d, s) = {}
  \/ /\ op = "remove_assignment"
     /\ find_assignment(d, a) = {}
  \/ /\ op = "remove_submission"
     /\ find_submission(d, a, s) = {}

Scoped ==
  {"add_submission", "add_notebook", "add_grade_cell", "add_solution_cell",
   "remove_student", "remove_assignment", "remove_submission"}

(* C24: add_submission with an absent assignment or student, add_notebook  *)
(* with an absent assignment, add_grade_cell or add_solution_cell with an  *)
(* absent notebook or assignment, and remove_student, remove_assignment or *)
(* remove_submission of an absent target raise MissingEntry, not           *)
(* InvalidEntry, and leave every table as it was; and these calls raise    *)
(* MissingEntry in no other case.                                          *)
C24_MissingEntryChangesNothing ==
  [][\A c \in {1} :
       (pc[c] = "idle" /\ pc'[c] = "done" /\ loc'[c].op \in Scoped) =>
         LET absent == NamesAbsent(db, loc'[c].op, loc'[c].a, loc'[c].s,
                                   loc'[c].n)
         IN
         /\ absent => loc'[c].status = "MissingEntry" /\ db' = db
         /\ loc'[c].status = "MissingEntry" => absent
    ]_vars

\* add_submission has raised MissingEntry for an assignment that exists,
\* with a notebook and a grade cell, and a student that does not, in a
\* store that holds a submission of another student.
C24_Witness ==
  /\ Done(1, "add_submission", "MissingEntry")
  /\ find_assignment(db, loc[1].a) # {}
  /\ find_student(db, loc[1].s) = {}
  /\ \E n \in db.notebook, g \in db.grade_cell :
       /\ n.assignment_id = The(find_assignment(db, loc[1].a)).id
       /\ g.notebook_id = n.id
  /\ db.submitted_assignment # {}

---------------------------------------------------------------------------
(* Two callers, each with a session of its own, in add_submission and      *)
(* update_or_create_submission (SpecRace).  A call reads (its finds) in    *)
(* one step and commits in a later one, and the other caller may run in    *)
(* between.  A first phase builds the students and the rubric the calls    *)
(* name; no step of the second phase changes them.  loc[c].arg holds the   *)
(* timestamp passed.                                                       *)

Race ==
  [Structure EXCEPT !.assignments = {1}, !.times = {Absent, MaxTime}]

InitRace ==
  /\ db = EmptyDb
  /\ pc = [c \in Callers |-> "setup"]
  /\ loc = [c \in Callers |-> Blank]

\* A student, an assignment, a notebook or a cell is added.
Prepare(I) ==
  /\ \A c \in Callers : pc[c] = "setup"
  /\ \E a \in I.assignments, s \in I.students, n \in I.notebooks,
        g \in I.grade_cells, k \in I.solution_cells :
       \E r \in {add_student(db, s), add_assignment(db, Used, a),
                 add_notebook(db, Used, n, a),
                 add_grade_cell(db, Used, g, n, a, MaxPoints, "code"),
                 add_solution_cell(db, Used, k, n, a)} :
         r.status = "ok" /\ db' = r.db
  /\ UNCHANGED <<pc, loc>>

\* The callers start.
Ready ==
  /\ \A c \in Callers : pc[c] = "setup"
  /\ pc' = [c \in Callers |-> "idle"]
  /\ UNCHANGED <<db, loc>>

\* update_or_create_submission: submission = self.find_submission(...)
UpdateOrCreateSubmissionFind(c, I) ==
  \E a \in I.assignments, s \in I.students, t \in I.times :
    LET fs == find_submission(db, a, s) IN
    /\ pc[c] = "idle"
    /\ pc' = [pc EXCEPT ![c] = IF fs = {} THEN "add" ELSE "update"]
    /\ loc' = [loc EXCEPT ![c] =
                 [Call("update_or_create_submission", a, s, 0, 0) EXCEPT
                    !.arg = t,
                    !.target = IF fs = {} THEN NoId ELSE The(fs).id]]
    /\ UNCHANGED db

\* add_submission, called by the caller or by update_or_create_submission:
\* self.find_assignment(assignment), self.find_student(student)
AddSubmissionFind(c, I) ==
  \E a \in I.assignments, s \in I.students, t \in I.times :
    LET call == IF pc[c] = "add" THEN loc[c]
                ELSE [Call("add_submission", a, s, 0, 0) EXCEPT !.arg = t]
    IN
    /\ pc[c] \in {"idle", "add"}
    /\ IF find_assignment(db, call.a) = {} \/ find_student(db, call.s) = {}
         THEN /\ pc' = [pc EXCEPT ![c] = "done"]
              /\ loc' = [loc EXCEPT ![c] =
                           [call EXCEPT !.status = "MissingEntry"]]
         ELSE /\ pc' = [pc EXCEPT ![c] = "commit"]
              /\ loc' = [loc EXCEPT ![c] = call]
    /\ UNCHANGED db

\* An add_submission whose commit no unique constraint stops.
AddSubmissionCommitUnconstrained(c) ==
  LET a == The(find_assignment(db, loc[c].a))
      s == The(find_student(db, loc[c].s))
  IN
  /\ pc[c] = "commit"
  /\ db' = Inserted(db, submission_graph(db, Used, a, s, Null))
  /\ Ends(c, "ok")

\* add_submission: the graph is built, self.db.add(submission), commit;
\* on IntegrityError rollback and InvalidEntry.
AddSubmissionCommit(c) ==
  LET r == add_submission(db, Used, loc[c].a, loc[c].s, loc[c].arg) IN
  /\ pc[c] = "commit"
  /\ db' = r.db
  /\ Ends(c, r.status)

\* update_or_create_submission, the submission found: setattr, commit.
UpdateSubmissionCommit(c) ==
  LET r == update_or_create_submission(db, Used, loc[c].a, loc[c].s,
                                       loc[c].arg)
  IN
  /\ pc[c] = "update"
  /\ db' = r.db
  /\ Ends(c, r.status)

NextRace ==
  \/ Prepare(Race)
  \/ Ready
  \/ \E c \in Callers :
       \/ AddSubmissionFind(c, Race)
       \/ AddSubmissionCommit(c)
       \/ UpdateOrCreateSubmissionFind(c, Race)
       \/ UpdateSubmissionCommit(c)
       \/ Return(c)

SpecRace == InitRace /\ [][NextRace]_vars

---------------------------------------------------------------------------
(* Properties of the races (SpecRace).                                     *)

\* Caller c's call has added a submission (it has not updated one).
HasAdded(c) ==
  /\ pc[c] = "done"
  /\ loc[c].status = "ok"
  /\ loc[c].target = NoId

\* Submission sub of d has exactly one SubmittedNotebook per notebook of
\* its assignment, with exactly one Grade per grade cell and one Comment
\* per solution cell of the notebook, and nothing else.
OneCompleteSet(d, sub) ==
  LET sns == {x \in d.submitted_notebook : x.assignment_id = sub.id}
      nbs == {n \in d.notebook : n.assignment_id = sub.assignment_id}
  IN
  /\ \A n \in nbs : Cardinality({x \in sns : x.notebook_id = n.id}) = 1
  /\ \A x \in sns : \E n \in nbs : x.notebook_id = n.id
  /\ \A x \in sns :
       LET gcs == {g \in d.grade_cell : g.notebook_id = x.notebook_id}
           scs == {k \in d.solution_cell : k.notebook_id = x.notebook_id}
       IN
       /\ \A g \in gcs : Cardinality(GradesFor(d, g, x)) = 1
       /\ \A k \in scs : Cardinality(CommentsFor(d, k, x)) = 1
       /\ \A g \in d.grade :
            g.notebook_id = x.id => \E gc \in gcs : g.cell_id = gc.id
       /\ \A k \in d.comment :
            k.notebook_id = x.id => \E sc \in scs : k.cell_id = sc.id

\* Every row of the submission graph of d belongs to a submission of d.
NoStrayRows(d) ==
  /\ Refers(d.submitted_notebook, "assignment_id", d.submitted_assignment)
  /\ Refers(d.grade, "notebook_id", d.submitted_notebook)
  /\ Refers(d.comment, "notebook_id", d.submitted_notebook)

(* C25: when two callers run add_submission for the same (assignment,      *)
(* student) pair, however their steps interleave, at most one of the calls *)
(* succeeds and the other one raises InvalidEntry and commits none of its  *)
(* rows; and in every state at most one SubmittedAssignment exists for the *)
(* pair, with exactly one complete set of SubmittedNotebooks, Grades and   *)
(* Comments.                                                               *)
C25_OneSubmissionPerPair ==
  [][/\ \A c \in Callers :
          (pc[c] = "commit" /\ pc'[c] = "done") =>
            IF find_submission(db, loc[c].a, loc[c].s) # {}
              THEN loc'[c].status = "InvalidEntry" /\ db' = db
              ELSE loc'[c].status = "ok" /\ C2_Graph(c)
     /\ \A c1, c2 \in Callers :
          ( /\ c1 # c2
            /\ HasAdded(c1)' /\ HasAdded(c2)'
            /\ loc'[c1].a = loc'[c2].a )
          => loc'[c1].s # loc'[c2].s
     /\ Unique(db'.submitted_assignment, {"assignment_id", "student_id"})
     /\ \A sub \in db'.submitted_assignment : OneCompleteSet(db', sub)
     /\ NoStrayRows(db')
    ]_vars

\* Both callers have called add_submission for the same pair, of an
\* assignment with a grade cell and a solution cell: one has succeeded and
\* the other one has raised InvalidEntry.
C25_Witness ==
  /\ Done(1, "add_submission", "ok")
  /\ Done(2, "add_submission", "InvalidEntry")
  /\ loc[1].a = loc[2].a
  /\ loc[1].s = loc[2].s
  /\ db.grade # {}
  /\ db.comment # {}

(* C26: when two callers run update_or_create_submission for the same pair *)
(* that has no submission yet, however their steps interleave, at most one *)
(* row exists for the pair in every state and neither call raises          *)
(* InvalidEntry: the caller that loses the race between the find and the   *)
(* add returns the submission as well.                                     *)
C26_BothReturn ==
  [][/\ Unique(db'.submitted_assignment, {"assignment_id", "student_id"})
     /\ \A c \in Callers :
          ( /\ pc[c] # "done"
            /\ pc'[c] = "done"
            /\ loc'[c].op = "update_or_create_submission" )
          => loc'[c].status # "InvalidEntry"
    ]_vars

---------------------------------------------------------------------------
(* C27: update_or_create_submission for a pair that has a submission       *)
(* succeeds and changes nothing but the timestamp of that                  *)
(* SubmittedAssignment row, and that only when a timestamp is passed: no   *)
(* SubmittedNotebook, Grade or Comment is created or deleted, and every    *)
(* auto_score, manual_score and comment text stays as it was.              *)
C27_UpdateTouchesSubmissionOnly ==
  [][\A c \in {1} :
       ( /\ pc[c] = "idle"
         /\ pc'[c] = "done"
         /\ loc'[c].op = "update_or_create_submission"
         /\ find_submission(db, loc'[c].a, loc'[c].s) # {} )
       =>
         LET old == The(find_submission(db, loc'[c].a, loc'[c].s)) IN
         /\ loc'[c].status = "ok"
         /\ \A t \in DOMAIN EmptyDb \ {"submitted_assignment"} :
              db'[t] = db[t]
         /\ \E new \in db'.submitted_assignment :
              /\ db'.submitted_assignment =
                   (db.submitted_assignment \ {old}) \cup {new}
              /\ \E ts \in Structure.times :
                   new = [old EXCEPT !.timestamp =
                            IF ts = Absent THEN @ ELSE ts]
    ]_vars

\* update_or_create_submission has set the timestamp of a submission that
\* holds a score and a comment text.
C27_Witness ==
  /\ Done(1, "update_or_create_submission", "ok")
  /\ \E sub \in find_submission(db, loc[1].a, loc[1].s) :
       /\ sub.timestamp = MaxTime
       /\ \E sn \in db.submitted_notebook :
            /\ sn.assignment_id = sub.id
            /\ \E g \in db.grade :
                 g.notebook_id = sn.id /\ g.auto_score # Null
            /\ \E k \in db.comment :
                 k.notebook_id = sn.id /\ k.comment # Null

---------------------------------------------------------------------------
\* Every row of marks (grades or comments) is for a cell of the template
\* notebook of its SubmittedNotebook.
MarksFollowTemplate(d, marks, cells) ==
  \A m \in marks :
    \E sn \in d.submitted_notebook, cell \in cells :
      /\ sn.id = m.notebook_id
      /\ cell.id = m.cell_id
      /\ cell.notebook_id = sn.notebook_id

(* C28: in every reachable state the template notebook of every            *)
(* SubmittedNotebook belongs to the assignment of its SubmittedAssignment, *)
(* the grade cell of every Grade and the solution cell of every Comment    *)
(* belong to the template notebook of the SubmittedNotebook of the Grade   *)
(* or Comment, and find_submission_notebook, find_grade and find_comment   *)
(* match at most one row, whatever names they are asked for.               *)
C28_SubmissionsFollowRubric ==
  /\ \A sn \in db.submitted_notebook :
       \E sa \in db.submitted_assignment, n \in db.notebook :
         /\ sa.id = sn.assignment_id
         /\ n.id = sn.notebook_id
         /\ n.assignment_id = sa.assignment_id
  /\ MarksFollowTemplate(db, db.grade, db.grade_cell)
  /\ MarksFollowTemplate(db, db.comment, db.solution_cell)
  /\ \A a \in Structure.assignments, s \in Structure.students,
        n \in Structure.notebooks :
       /\ Cardinality(find_submission_notebook(db, n, a, s)) <= 1
       /\ \A g \in Structure.grade_cells :
            Cardinality(find_grade(db, g, n, a, s)) <= 1
       /\ \A k \in Structure.solution_cells :
            Cardinality(find_comment(db, k, n, a, s)) <= 1

\* A student has submissions of two assignments whose notebooks have the
\* same name and cells of the same names, each with its grade, and
\* find_grade matches one row for each.
C28_Witness ==
  /\ Done(1, "add_submission", "ok")
  /\ \E s \in Structure.students, n \in Structure.notebooks,
        g \in Structure.grade_cells :
       \A a \in Structure.assignments :
         Cardinality(find_grade(db, g, n, a, s)) = 1
  /\ db.comment # {}

---------------------------------------------------------------------------
\* The sum, over the assignments A, of the points of their grade cells.
RECURSIVE PointsOfAssignments(_)
PointsOfAssignments(A) ==
  IF A = {} THEN 0
  ELSE LET a == CHOOSE x \in A : TRUE
       IN  Points(CellsOfAssignment(a.id)) + PointsOfAssignments(A \ {a})

(* C29: in every reachable state the max_score of every student is the sum *)
(* of max_score over all the assignments of the gradebook, which is the    *)
(* sum over all its grade cells: it is the same for every student,         *)
(* whatever the student has submitted, and it is 0 (never NULL) when the   *)
(* gradebook has no grade cell.                                            *)
C29_StudentMaxScore ==
  \A st \in db.student :
    /\ Student_max_score(db, st) = PointsOfAssignments(db.assignment)
    /\ Student_max_score(db, st) = Points(db.grade_cell)
    /\ \A other \in db.student :
         Student_max_score(db, other) = Student_max_score(db, st)
    /\ db.grade_cell = {} => Student_max_score(db, st) = 0

\* Two assignments have a grade cell each; one student has submitted one
\* of them and the other student none.
C29_Witness ==
  /\ Done(1, "add_submission", "ok")
  /\ \A a \in db.assignment : CellsOfAssignment(a.id) # {}
  /\ Cardinality(db.assignment) = NumAssignments
  /\ Cardinality(db.submitted_assignment) = 1
  /\ Cardinality(db.student) = NumStudents
  /\ \A st \in db.student : Student_max_score(db, st) = 2 * MaxPoints

===========================================================================
